---- MODULE Spec2Model ----
(***************************************************************************)
(* The retrieval core of the manuals chatbot.                              *)
(*                                                                         *)
(* Spec          the chunking pipeline of app/chunking.py:                 *)
(*               extract_section_headers, find_current_section and         *)
(*               recursive_text_splitter with its nested split_recursive.  *)
(* SpecClassify  app/domain_classifier.py: classify_document_domain,       *)
(*               classify_query_domain and get_domain_filter.              *)
(* SpecRetrieve  similarity_search of app/vectorstore.py, load_reranker    *)
(*               and rerank_documents of app/reranker.py, and              *)
(*               retrieve_context of app/retrieval.py.                     *)
(* SpecSteps     split_recursive of app/chunking.py one statement at a     *)
(*               time, with the stack of its calls; FairSpecSteps adds     *)
(*               that a running call keeps executing.                      *)
(* SpecLoad      load_reranker of app/reranker.py called from several      *)
(*               threads of one process.                                   *)
(* SpecSync      sync_manuals of app/ingestion.py with get_indexed_files,  *)
(*               add_documents and reset_vectorstore of                    *)
(*               app/vectorstore.py.                                       *)
(*                                                                         *)
(* A text is a sequence of one-character strings.  Offsets are 0-based as  *)
(* in the Python source; a slice text[a:b] is SubSeq(text, a + 1, b).      *)
(***************************************************************************)
EXTENDS Integers, Sequences, FiniteSets, TLC

(* recursive_text_splitter: its arguments, the extracted headers, the
   returned chunks and the position of the call *)
VARIABLES text, chunk_size, chunk_overlap, min_chunk_size, headers, chunks, pc

(* app/domain_classifier.py: the call made, the value it returned and the
   domain_scores dictionary classify_document_domain built on the way *)
VARIABLES request, response, domain_scores

(* app/vectorstore.py, app/reranker.py and app/retrieval.py: the call made
   and its position, the configuration flag ENABLE_RERANKING, the global
   _reranker, the list held in the local documents, the vector searches
   issued so far, the list handed to rerank_documents with the way it
   returned and the scores predict gave, the components entered, and the
   outcome of the call *)
VARIABLES call, rpc, ENABLE_RERANKING, _reranker, documents, searches,
          candidates, rerank_path, rerank_scores, invoked, outcome

(* split_recursive taken one step at a time: the frames of the calls in
   progress, the innermost last *)
VARIABLES stack

(* load_reranker called from several threads: where each caller stands
   with the model it constructed and the value load_reranker returned to
   it, the CrossEncoder objects constructed so far, and the assignments
   made to the global _reranker *)
VARIABLES loading, constructed, assigned

(* sync_manuals: the PDFs of the manuals directory, the number of chunks
   each PDF yields, the documents in the vector store, how often the
   chunks of each file were added since the last reset, and the calls
   completed so far with the stats they returned *)
VARIABLES directory, yields, store, added, log

chunking_vars ==
  <<text, chunk_size, chunk_overlap, min_chunk_size, headers, chunks, pc>>

classifier_vars == <<request, response, domain_scores>>

retrieval_vars ==
  <<call, rpc, ENABLE_RERANKING, _reranker, documents, searches,
    candidates, rerank_path, rerank_scores, invoked, outcome>>

stack_vars == <<stack>>

loader_vars == <<loading, constructed, assigned>>

sync_vars == <<directory, yields, store, added, log>>

vars ==
  <<chunking_vars, classifier_vars, retrieval_vars, stack_vars,
    loader_vars, sync_vars>>

(* no call of the component is in progress *)
chunking_idle ==
  /\ text = <<>>
  /\ chunk_size = 0
  /\ chunk_overlap = 0
  /\ min_chunk_size = 0
  /\ headers = <<>>
  /\ chunks = <<>>
  /\ pc = "idle"

classifier_idle ==
  /\ request = [fn |-> "idle"]
  /\ response = <<>>
  /\ domain_scores = <<>>

retrieval_idle ==
  /\ call = [fn |-> "idle"]
  /\ rpc = "idle"
  /\ ENABLE_RERANKING = TRUE
  /\ _reranker = "None"
  /\ documents = <<>>
  /\ searches = <<>>
  /\ candidates = <<>>
  /\ rerank_path = ""
  /\ rerank_scores = <<>>
  /\ invoked = {}
  /\ outcome = [status |-> "idle"]

stack_idle ==
  stack = <<>>

loader_idle ==
  /\ loading = <<>>
  /\ constructed = <<>>
  /\ assigned = <<>>

sync_idle ==
  /\ directory = {}
  /\ yields = <<>>
  /\ store = <<>>
  /\ added = <<>>
  /\ log = <<>>

(***************************************************************************)
(* Bounds of the explored inputs.                                          *)
(***************************************************************************)
MaxLen == 7
MaxChunk == 3
MaxMin == 2
MaxLines == 3

(* the longest text split one statement at a time *)
MaxStepLen == 4

Alphabet == {"A", " ", "\n"}

(***************************************************************************)
(* Character classes of Python's re and str.strip, restricted to ASCII.    *)
(***************************************************************************)
Upper ==
  {"A", "B", "C", "D", "E", "F", "G", "H", "I", "J", "K", "L", "M",
   "N", "O", "P", "Q", "R", "S", "T", "U", "V", "W", "X", "Y", "Z"}

Digit == {"0", "1", "2", "3", "4", "5", "6", "7", "8", "9"}

WhiteSpace == {" ", "\t", "\n", "\r", "\f"}

Min(S) == CHOOSE x \in S : \A y \in S : x <= y

Max(S) == CHOOSE x \in S : \A y \in S : x >= y

(* text[a:b] for 0 <= a, b <= len(text) *)
Slice(s, a, b) == SubSeq(s, a + 1, b)

(* s[p], 0-based *)
At(s, p) == s[p + 1]

RECURSIVE SkipLeft(_, _)
SkipLeft(s, i) ==
  IF i > Len(s) \/ s[i] \notin WhiteSpace THEN i ELSE SkipLeft(s, i + 1)

RECURSIVE SkipRight(_, _)
SkipRight(s, i) ==
  IF i < 1 \/ s[i] \notin WhiteSpace THEN i ELSE SkipRight(s, i - 1)

(* str.strip() *)
strip(s) == SubSeq(s, SkipLeft(s, 1), SkipRight(s, Len(s)))

(* str.split(sep) for a non-empty separator: leftmost, non-overlapping *)
RECURSIVE split(_, _)
split(s, sep) ==
  LET k == Len(sep)
      hits == {i \in 1..(Len(s) - k + 1) : SubSeq(s, i, i + k - 1) = sep}
  IN  IF hits = {} THEN <<s>>
      ELSE LET i == Min(hits)
           IN  <<SubSeq(s, 1, i - 1)>> \o split(SubSeq(s, i + k, Len(s)), sep)

(* s[-n:] for n > 0 *)
Tail_n(s, n) == IF n >= Len(s) THEN s ELSE SubSeq(s, Len(s) - n + 1, Len(s))

(***************************************************************************)
(* extract_section_headers: three MULTILINE patterns, matches pooled and   *)
(* sorted by position.                                                     *)
(***************************************************************************)

(* ^ under re.MULTILINE *)
LineStart(t, p) == p = 0 \/ At(t, p - 1) = "\n"

(* $ under re.MULTILINE *)
LineEnd(t, p) == p = Len(t) \/ At(t, p) = "\n"

(* first position q in from..len(t)-1 whose character is in (stop = TRUE) or
   outside (stop = FALSE) the class C; len(t) when there is none *)
Scan(t, from, C, stop) ==
  Min({q \in from..(Len(t) - 1) : (At(t, q) \in C) = stop} \cup {Len(t)})

(* numbered_pattern  ^(\d+\.?\d*\.?\s+[A-Z][^\n]{3,50})$ : end of the match
   that starts at p, or -1 *)
numbered_pattern(t, p) ==
  LET n == Len(t)
      w == Scan(t, p, Digit \cup {"."}, FALSE)
      d == Scan(t, p, Digit, FALSE)
      u == Scan(t, w, WhiteSpace, FALSE)
      eol == Scan(t, u + 1, {"\n"}, TRUE)
  IN  IF /\ At(t, p) \in Digit
         /\ \A q \in (d + 1)..(w - 2) : At(t, q) # "."
         /\ w < n /\ At(t, w) \in WhiteSpace
         /\ u < n /\ At(t, u) \in Upper
         /\ eol - (u + 1) >= 3 /\ eol - (u + 1) <= 50
      THEN eol ELSE -1

Lower ==
  {"a", "b", "c", "d", "e", "f", "g", "h", "i", "j", "k", "l", "m",
   "n", "o", "p", "q", "r", "s", "t", "u", "v", "w", "x", "y", "z"}

(* caps_pattern compiled with re.IGNORECASE *)
caps_pattern_ignorecase(t, p) ==
  LET ends == {k \in 5..50 :
                 /\ p + 1 + k <= Len(t)
                 /\ \A j \in 1..k :
                      At(t, p + j) \in Upper \cup Lower \cup WhiteSpace
                 /\ LineEnd(t, p + 1 + k)}
  IN  IF At(t, p) \in Upper \cup Lower /\ ends # {}
      THEN p + 1 + Max(ends) ELSE -1

(* caps_pattern  ^([A-Z][A-Z\s]{5,50})$ : greedy, so the longest run that
   ends at a line end *)
caps_pattern(t, p) ==
  LET ends == {k \in 5..50 :
                 /\ p + 1 + k <= Len(t)
                 /\ \A j \in 1..k : At(t, p + j) \in Upper \cup WhiteSpace
                 /\ LineEnd(t, p + 1 + k)}
  IN  IF At(t, p) \in Upper /\ ends # {} THEN p + 1 + Max(ends) ELSE -1

(* colon_pattern  ^([A-Z][^:\n]{3,40}:)\s*$ : position just after the colon
   of group 1, or -1 *)
colon_group_end(t, p) ==
  LET c == Scan(t, p + 1, {":", "\n"}, TRUE)
  IN  IF /\ At(t, p) \in Upper
         /\ c < Len(t) /\ At(t, c) = ":"
         /\ c - p - 1 >= 3 /\ c - p - 1 <= 40
      THEN c + 1 ELSE -1

colon_pattern(t, p) ==
  LET g == colon_group_end(t, p)
      r == Scan(t, g, WhiteSpace, FALSE)
      ends == {e \in g..r : LineEnd(t, e)}
  IN  IF g # -1 /\ ends # {} THEN Max(ends) ELSE -1

(* match.end() of pattern k at p, -1 when the pattern does not match there *)
match_end(k, t, p) ==
  IF ~LineStart(t, p) THEN -1
  ELSE CASE k = 1 -> numbered_pattern(t, p)
         [] k = 2 -> caps_pattern(t, p)
         [] k = 3 -> colon_pattern(t, p)

(* match.group(1) *)
match_group(k, t, p) ==
  IF k = 3 THEN Slice(t, p, colon_group_end(t, p))
  ELSE Slice(t, p, match_end(k, t, p))

(* re.finditer: leftmost matches, each search resuming at the previous end *)
RECURSIVE finditer(_, _, _, _)
finditer(k, t, starts, pos) ==
  LET S == {p \in starts : p >= pos}
  IN  IF S = {} THEN <<>>
      ELSE LET p == Min(S)
           IN  <<<<p, strip(match_group(k, t, p))>>>>
                 \o finditer(k, t, starts, match_end(k, t, p))

pattern_matches(k, t) ==
  finditer(k, t, {p \in 0..(Len(t) - 1) : match_end(k, t, p) # -1}, 0)

(* list.sort(key=lambda x: x[0]) : stable *)
sort_by_position(L) ==
  LET rank(i) == Cardinality({j \in 1..Len(L) :
                    \/ L[j][1] < L[i][1]
                    \/ L[j][1] = L[i][1] /\ j < i})
  IN  [r \in 1..Len(L) |-> L[CHOOSE i \in 1..Len(L) : rank(i) = r - 1]]

extract_section_headers(t) ==
  sort_by_position(pattern_matches(1, t) \o pattern_matches(2, t)
                     \o pattern_matches(3, t))

(***************************************************************************)
(* find_current_section: linear scan that stops at the first header lying  *)
(* after the position.                                                     *)
(***************************************************************************)
(* the comparison written as header_pos < position *)
header_applies_strict(header_pos, position) == header_pos < position

header_applies(header_pos, position) == header_pos <= position

(* the for loop from entry i on; sel is the entry whose header_text
   current_section holds, 0 while current_section is still "" *)
RECURSIVE section_scan(_, _, _, _)
section_scan(position, hs, i, sel) ==
  IF i > Len(hs) THEN sel
  ELSE IF header_applies(hs[i][1], position)
       THEN section_scan(position, hs, i + 1, i)
       ELSE sel

(* the entry of hs the scan selects for position, 0 when it selects none *)
selected_entry(position, hs) == section_scan(position, hs, 1, 0)

find_current_section(position, hs) ==
  LET sel == selected_entry(position, hs)
  IN  IF sel = 0 THEN <<>> ELSE hs[sel][2]

(***************************************************************************)
(* recursive_text_splitter.  chunk_size, chunk_overlap, min_chunk_size and *)
(* headers are the enclosing function's locals, here the state variables.  *)
(*                                                                         *)
(* A Chunk record carries the four fields of the dataclass and three       *)
(* history fields the code does not have: src, the position in the source  *)
(* text at which the untrimmed buffer of the chunk really starts; site,    *)
(* the statement that emitted it; ov, whether it was emitted inside a      *)
(* recursive call made on an overlap-prepended buffer.                     *)
(***************************************************************************)
separators ==
  << <<"\n", "\n">>, <<"\n">>, <<".", " ">>, <<"!", " ">>, <<"?", " ">>,
     <<";", " ">>, <<",", " ">>, <<" ">> >>

Chunk(raw, start, section, src, site, ov) ==
  [content |-> strip(raw), start_char |-> start,
   end_char |-> start + Len(raw), section_header |-> section,
   src |-> src, site |-> site, ov |-> ov]

(* the floor applied to the untrimmed buffer *)
keeps_untrimmed(raw) == Len(raw) >= min_chunk_size

(* the test every emit site applies before it appends a chunk *)
keeps(raw) == Len(strip(raw)) >= min_chunk_size

(* sum(len(p) + len(separator) for p in parts[:k]) *)
RECURSIVE parts_length(_, _, _)
parts_length(parts, k, separator) ==
  IF k = 0 THEN 0
  ELSE parts_length(parts, k - 1, separator) + Len(parts[k]) + Len(separator)

(* the section given to the window of a forced split that starts at
   start_offset + i *)
window_section(start_offset, i) == find_current_section(start_offset, headers)

(* a forced split whose windows do not overlap *)
force_split_no_overlap(text_segment, start_offset, src, ov) ==
  LET step == chunk_size
      n == (Len(text_segment) + step - 1) \div step
      window(j) ==
        LET i == (j - 1) * step
            hi == IF i + chunk_size > Len(text_segment)
                  THEN Len(text_segment) ELSE i + chunk_size
        IN  [raw |-> Slice(text_segment, i, hi), i |-> i]
      all == [j \in 1..n |->
                Chunk(window(j).raw, start_offset + window(j).i,
                      window_section(start_offset, window(j).i),
                      src + window(j).i, "window", ov)]
      kept(c) == Len(c.content) >= min_chunk_size
  IN  SelectSeq(all, kept)

(* forced split: windows text_segment[i : i + chunk_size] for
   i in range(0, len(text_segment), chunk_size - chunk_overlap) *)
force_split(text_segment, start_offset, src, ov) ==
  LET step == chunk_size - chunk_overlap
      n == (Len(text_segment) + step - 1) \div step
      window(j) ==
        LET i == (j - 1) * step
            hi == IF i + chunk_size > Len(text_segment)
                  THEN Len(text_segment) ELSE i + chunk_size
        IN  [raw |-> Slice(text_segment, i, hi), i |-> i]
      all == [j \in 1..n |->
                Chunk(window(j).raw, start_offset + window(j).i,
                      window_section(start_offset, window(j).i),
                      src + window(j).i, "window", ov)]
      kept(c) == Len(c.content) >= min_chunk_size
  IN  SelectSeq(all, kept)

(* the part fits into the running buffer *)
fits(current_chunk, part_with_sep) ==
  Len(current_chunk) + Len(part_with_sep) <= chunk_size

(* the overlap branch is taken *)
with_overlap(current_chunk) == chunk_overlap > 0 /\ current_chunk # <<>>

(* the overlap taken from the head of the buffer,
   current_chunk[:chunk_overlap] *)
overlap_text_head(current_chunk) ==
  SubSeq(current_chunk, 1,
         IF chunk_overlap >= Len(current_chunk) THEN Len(current_chunk)
         ELSE chunk_overlap)

(* the whole buffer carried over *)
overlap_text_whole(current_chunk) == current_chunk

(* current_chunk[-chunk_overlap:] *)
overlap_text(current_chunk) == Tail_n(current_chunk, chunk_overlap)

(* current_start after the overlap was prepended; new_chunk is the buffer
   already reassigned to overlap_text + part_with_sep *)
overlap_start(current_start, new_chunk, overlap, part_with_sep) ==
  current_start + Len(new_chunk) - Len(overlap) - Len(part_with_sep)

(* the restart offset summed over parts[:i + 1] *)
restart_start_next(start_offset, parts, i, separator) ==
  start_offset + parts_length(parts, i, separator)

(* current_start when the buffer restarts at part i (1-based) *)
restart_start(start_offset, parts, i, separator) ==
  start_offset + parts_length(parts, i - 1, separator)

(* the rebuilt buffer is allowed to exceed chunk_size by the overlap *)
too_large_beyond_overlap(current_chunk) ==
  Len(current_chunk) > chunk_size + chunk_overlap

(* the rebuilt buffer is handed to the next separator *)
too_large(current_chunk) == Len(current_chunk) > chunk_size

RECURSIVE split_recursive(_, _, _, _, _)
RECURSIVE accumulate(_, _, _, _, _, _, _, _, _, _)

(* the for loop over parts, from part i on, and the final flush.  cur_src
   is the history counterpart of current_start. *)
accumulate(parts, i, result, current_chunk, current_start, start_offset, sep_index, src, cur_src, ov) ==
  LET separator == separators[sep_index + 1]
  IN
  IF i > Len(parts)
  THEN IF keeps(current_chunk)
       THEN Append(result,
              Chunk(current_chunk, current_start,
                    find_current_section(current_start, headers),
                    cur_src, "final", ov))
       ELSE result
  ELSE
    LET part_with_sep == IF i < Len(parts) THEN parts[i] \o separator
                         ELSE parts[i]
        part_src == src + parts_length(parts, i - 1, separator)
    IN
    IF fits(current_chunk, part_with_sep)
    THEN accumulate(parts, i + 1, result, current_chunk \o part_with_sep,
                    current_start, start_offset, sep_index, src,
                    IF current_chunk = <<>> THEN part_src ELSE cur_src, ov)
    ELSE
      LET flushed ==
            IF keeps(current_chunk)
            THEN Append(result,
                   Chunk(current_chunk, current_start,
                         find_current_section(current_start, headers),
                         cur_src, "flush", ov))
            ELSE result
          overlapped == with_overlap(current_chunk)
          overlap == overlap_text(current_chunk)
          new_chunk == IF overlapped THEN overlap \o part_with_sep
                       ELSE part_with_sep
          new_start == IF overlapped
                       THEN overlap_start(current_start, new_chunk, overlap,
                                          part_with_sep)
                       ELSE restart_start(start_offset, parts, i, separator)
          new_src == IF overlapped
                     THEN cur_src + Len(current_chunk) - Len(overlap)
                     ELSE part_src
      IN
      IF too_large(new_chunk)
      THEN accumulate(parts, i + 1,
                      flushed \o split_recursive(new_chunk, new_start,
                                                 sep_index + 1, new_src,
                                                 ov \/ overlapped),
                      <<>>, new_start, start_offset, sep_index, src,
                      new_src, ov)
      ELSE accumulate(parts, i + 1, flushed, new_chunk, new_start,
                      start_offset, sep_index, src, new_src, ov)

split_recursive(text_segment, start_offset, sep_index, src, ov) ==
  IF Len(text_segment) <= chunk_size
  THEN IF keeps(text_segment)
       THEN <<Chunk(text_segment, start_offset,
                    find_current_section(start_offset, headers),
                    src, "base", ov)>>
       ELSE <<>>
  ELSE IF sep_index >= Len(separators)
  THEN force_split(text_segment, start_offset, src, ov)
  ELSE
    LET parts == split(text_segment, separators[sep_index + 1])
    IN  IF Len(parts) = 1
        THEN split_recursive(text_segment, start_offset, sep_index + 1,
                             src, ov)
        ELSE accumulate(parts, 1, <<>>, <<>>, start_offset,
                        start_offset, sep_index, src, src, ov)

(* the guard of recursive_text_splitter's early return *)
degenerate(t) == t = <<>> \/ Len(strip(t)) < min_chunk_size

(***************************************************************************)
(* The state machine: one call of recursive_text_splitter on a chosen      *)
(* input.                                                                  *)
(***************************************************************************)
RECURSIVE Texts(_)
Texts(n) ==
  IF n = 0 THEN {<<>>}
  ELSE LET shorter == Texts(n - 1)
       IN  shorter \cup {Append(t, c) : t \in {s \in shorter : Len(s) = n - 1},
                                         c \in Alphabet}

(* the input of the specification's concrete scenario 1:
   "Section A\n\n" + "x" * 2000 with chunk_size=500, overlap=50,
   min_chunk_size=20 *)
Scenario1 ==
  [text |-> <<"S", "e", "c", "t", "i", "o", "n", " ", "A", "\n", "\n">>
              \o [i \in 1..2000 |-> "x"],
   chunk_size |-> 500, chunk_overlap |-> 50, min_chunk_size |-> 20]

IsScenario1 ==
  /\ text = Scenario1.text
  /\ chunk_size = Scenario1.chunk_size
  /\ chunk_overlap = Scenario1.chunk_overlap
  /\ min_chunk_size = Scenario1.min_chunk_size

(* lines of a manual page: one header-shaped line per pattern of
   extract_section_headers, and a body line that matches none *)
Lines ==
  { <<"1", ".", " ", "A", "b", "c", "d">>,
    <<"A", "B", "C", "D", "E", "F">>,
    <<"A", "b", "c", "d", ":">>,
    <<"x", "y">> }

(* the texts of at most n lines of Lines, joined by "\n" *)
RECURSIVE Documents(_)
Documents(n) ==
  IF n = 1 THEN Lines
  ELSE LET shorter == Documents(n - 1)
       IN  shorter \cup {d \o <<"\n">> \o l : d \in shorter, l \in Lines}

(* the inputs: every text over Alphabet up to MaxLen characters with every
   parameter triple 1 <= chunk_size <= MaxChunk, 0 <= chunk_overlap <
   chunk_size, 0 <= min_chunk_size <= MaxMin, the same triples with every
   manual page of at most MaxLines lines; and scenario 1 *)
Init ==
  /\ \/ /\ text \in Texts(MaxLen) \cup Documents(MaxLines)
        /\ chunk_size \in 1..MaxChunk
        /\ chunk_overlap \in 0..(chunk_size - 1)
        /\ min_chunk_size \in 0..MaxMin
     \/ IsScenario1
  /\ headers = <<>>
  /\ chunks = <<>>
  /\ pc = "start"
  /\ classifier_idle
  /\ retrieval_idle
  /\ stack_idle
  /\ loader_idle
  /\ sync_idle

(* if not text or len(text.strip()) < min_chunk_size: return [] *)
ReturnEmpty ==
  /\ pc = "start"
  /\ degenerate(text)
  /\ chunks' = <<>>
  /\ pc' = "done"
  /\ UNCHANGED <<text, chunk_size, chunk_overlap, min_chunk_size, headers>>
  /\ UNCHANGED <<classifier_vars, retrieval_vars, stack_vars,
                 loader_vars, sync_vars>>

(* headers = extract_section_headers(text) *)
ExtractHeaders ==
  /\ pc = "start"
  /\ ~degenerate(text)
  /\ headers' = extract_section_headers(text)
  /\ pc' = "split"
  /\ UNCHANGED <<text, chunk_size, chunk_overlap, min_chunk_size, chunks>>
  /\ UNCHANGED <<classifier_vars, retrieval_vars, stack_vars,
                 loader_vars, sync_vars>>

(* return split_recursive(text, 0) *)
Split ==
  /\ pc = "split"
  /\ chunks' = split_recursive(text, 0, 0, 0, FALSE)
  /\ pc' = "done"
  /\ UNCHANGED <<text, chunk_size, chunk_overlap, min_chunk_size, headers>>
  /\ UNCHANGED <<classifier_vars, retrieval_vars, stack_vars,
                 loader_vars, sync_vars>>

Next == ReturnEmpty \/ ExtractHeaders \/ Split

Spec == Init /\ [][Next]_vars

(***************************************************************************)
(* Properties of the chunks a finished call returned.                      *)
(***************************************************************************)
Returned == pc = "done"

ChunkIds == 1..Len(chunks)

(* length of the untrimmed buffer a chunk was cut from *)
raw_length(c) == c.end_char - c.start_char

(* the untrimmed buffer of a chunk, read at its true source position *)
source_buffer(c) == Slice(text, c.src, c.src + raw_length(c))

(* the source positions of the characters of a chunk's content *)
content_positions(c) ==
  LET first == c.src + SkipLeft(source_buffer(c), 1) - 1
  IN  first..(first + Len(c.content) - 1)

occurs_in(s, t) ==
  \E a \in 0..(Len(t) - Len(s)) : Slice(t, a, a + Len(s)) = s

(* C1: every returned chunk satisfies
   trim(text[start_char : end_char]) = content. *)
C1_OffsetRoundTrip ==
  Returned =>
    \A i \in ChunkIds :
      strip(Slice(text, chunks[i].start_char, chunks[i].end_char))
        = chunks[i].content

(* C2: every returned chunk satisfies
   0 <= start_char <= end_char <= len(text). *)
C2_ChunkBounds ==
  Returned =>
    \A i \in ChunkIds :
      /\ 0 <= chunks[i].start_char
      /\ chunks[i].start_char <= chunks[i].end_char
      /\ chunks[i].end_char <= Len(text)

(* a call that flushed a buffer, recursed on an overlap-prepended buffer
   down to forced windows, and returned a chunk that ends at the end of the
   text without starting at 0 *)
C2_Witness ==
  /\ Returned
  /\ min_chunk_size >= 1
  /\ \E i, j, k \in ChunkIds :
       /\ chunks[i].site = "flush"
       /\ chunks[j].site = "window" /\ chunks[j].ov
       /\ chunks[k].start_char > 0 /\ chunks[k].end_char = Len(text)

(* C3: no returned chunk has content longer than chunk_size. *)
C3_SizeBound ==
  Returned => \A i \in ChunkIds : Len(chunks[i].content) <= chunk_size

(* an overlap-prepended buffer exceeded chunk_size and was handed on: its
   chunks come from the recursive call, one of them exactly chunk_size long *)
C3_Witness ==
  /\ Returned
  /\ min_chunk_size >= 1
  /\ chunk_overlap > 0
  /\ \E i \in ChunkIds :
       chunks[i].ov /\ Len(chunks[i].content) = chunk_size
  /\ \E i \in ChunkIds : chunks[i].site \in {"flush", "final"}

(* C4: no returned chunk has trimmed content shorter than
   min_chunk_size. *)
C4_MinimumFloor ==
  Returned => \A i \in ChunkIds : Len(chunks[i].content) >= min_chunk_size

(* a call with a floor of at least 2 that returned a chunk exactly at the
   floor and dropped a candidate holding a visible character *)
C4_Witness ==
  /\ Returned
  /\ min_chunk_size >= 2
  /\ \E i \in ChunkIds : Len(chunks[i].content) = min_chunk_size
  /\ \E q \in 0..(Len(text) - 1) :
       /\ At(text, q) \notin WhiteSpace
       /\ \A i \in ChunkIds : q \notin content_positions(chunks[i])

(* C5: every returned chunk's content is trimmed and is the trimmed
   contiguous slice of the source text that starts where its buffer
   started. *)
C5_ContiguousSubstring ==
  Returned =>
    \A i \in ChunkIds :
      /\ chunks[i].content = strip(chunks[i].content)
      /\ occurs_in(chunks[i].content, text)
      /\ chunks[i].src + raw_length(chunks[i]) <= Len(text)
      /\ chunks[i].content = strip(source_buffer(chunks[i]))

(* a chunk cut from an overlap-prepended buffer inside a recursive call,
   holding both a letter and white space, away from the start of the text *)
C5_Witness ==
  /\ Returned
  /\ min_chunk_size >= 1
  /\ \E i \in ChunkIds :
       /\ chunks[i].ov /\ chunks[i].src > 0
       /\ \E a, b \in 1..Len(chunks[i].content) :
            /\ chunks[i].content[a] \in WhiteSpace
            /\ chunks[i].content[b] \notin WhiteSpace

(* C6: the union of the recorded [start_char, end_char) ranges contains the
   source position of every character of every chunk's content. *)
C6_Coverage ==
  Returned =>
    \A i \in ChunkIds :
      \A q \in content_positions(chunks[i]) :
        \E j \in ChunkIds :
          chunks[j].start_char <= q /\ q < chunks[j].end_char

(* C7: the empty string, white-space-only text and text whose trimmed
   length is below min_chunk_size return the empty list. *)
C7_DegenerateInput ==
  Returned /\ (\/ text = <<>>
               \/ strip(text) = <<>>
               \/ Len(strip(text)) < min_chunk_size)
    => chunks = <<>>

(* C8: every returned chunk is tagged with the header that owns its own
   start offset. *)
C8_SectionTagging ==
  Returned =>
    \A i \in ChunkIds :
      chunks[i].section_header
        = find_current_section(chunks[i].start_char, headers)

SectionA == <<"S", "e", "c", "t", "i", "o", "n", " ", "A">>

(* C9 as stated: scenario 1 returns at least 4 chunks of at most 500
   characters, the first tagged "Section A". *)
C9_Scenario1Stated ==
  Returned /\ IsScenario1 =>
    /\ Len(chunks) >= 4
    /\ \A i \in ChunkIds : Len(chunks[i].content) <= 500
    /\ chunks[1].section_header = SectionA

(* C9 amended: scenario 1 returns at least 4 chunks of at most 500
   characters; "Section A" matches no header pattern, so no header is found
   and the first chunk's section_header is the empty string. *)
C9_Scenario1 ==
  /\ pc # "start" /\ IsScenario1 => headers = <<>>
  /\ Returned /\ IsScenario1 =>
       /\ Len(chunks) >= 4
       /\ \A i \in ChunkIds : Len(chunks[i].content) <= 500
       /\ chunks[1].section_header = <<>>

(* scenario 1 has returned, and its first chunk begins with "Section A" *)
C9_Witness ==
  /\ Returned /\ IsScenario1
  /\ Len(chunks) >= 4
  /\ SubSeq(chunks[1].content, 1, Len(SectionA)) = SectionA

(* the entries of hs whose offset is <= position *)
applicable(position, hs) == {i \in 1..Len(hs) : hs[i][1] <= position}

(* C10: on the headers extracted from a text, which are sorted by offset,
   find_current_section returns the text of the last entry whose offset is
   <= position, the empty string when there is none, and the entry selected
   never moves backwards as the position grows. *)
C10_FindCurrentSection ==
  pc # "start" =>
    /\ \A i \in 1..(Len(headers) - 1) : headers[i][1] <= headers[i + 1][1]
    /\ \A p \in 0..Len(text) :
         LET S == applicable(p, headers)
         IN  /\ S = {} => find_current_section(p, headers) = <<>>
             /\ S # {} =>
                  /\ selected_entry(p, headers) = Max(S)
                  /\ find_current_section(p, headers) = headers[Max(S)][2]
    /\ \A p1, p2 \in 0..Len(text) :
         p1 <= p2 =>
           selected_entry(p1, headers) <= selected_entry(p2, headers)

(* a text with two different headers after a body line: positions before
   the first header, just before the second and at the end of the text
   select nothing, entry 1 and entry 2 *)
C10_Witness ==
  /\ pc = "split"
  /\ Len(headers) = 2
  /\ headers[1][1] > 0
  /\ find_current_section(0, headers) = <<>>
  /\ find_current_section(headers[2][1] - 1, headers) = headers[1][2]
  /\ find_current_section(Len(text), headers) = headers[2][2]
  /\ headers[1][2] # headers[2][2]

(***************************************************************************)
(* app/domain_classifier.py.  Domain names are atoms; filenames, content   *)
(* samples, queries, patterns and keywords are sequences of characters.    *)
(***************************************************************************)
MaxWords == 2
MaxQueryWords == 4

UpperCase ==
  <<"A", "B", "C", "D", "E", "F", "G", "H", "I", "J", "K", "L", "M",
    "N", "O", "P", "Q", "R", "S", "T", "U", "V", "W", "X", "Y", "Z">>

LowerCase ==
  <<"a", "b", "c", "d", "e", "f", "g", "h", "i", "j", "k", "l", "m",
    "n", "o", "p", "q", "r", "s", "t", "u", "v", "w", "x", "y", "z">>

(* str.lower on ASCII text *)
lower(s) ==
  [i \in 1..Len(s) |->
     IF s[i] \in Upper
     THEN LowerCase[CHOOSE k \in 1..Len(UpperCase) : UpperCase[k] = s[i]]
     ELSE s[i]]

(* pattern in s *)
str_in(pattern, s) ==
  \E a \in 0..(Len(s) - Len(pattern)) : Slice(s, a, a + Len(pattern)) = pattern

(* the tables of app/config.py, in their insertion order *)
DOMAIN_MAPPINGS ==
  <<
    <<"claims",
      <<<<"c", "l", "a", "i", "m">>,
        <<"c", "l", "a", "i", "m", "s">>>> >>,
    <<"remits",
      <<<<"r", "e", "m", "i", "t">>,
        <<"r", "e", "m", "i", "t", "s">>,
        <<"d", "e", "p", "o", "s", "i", "t">>>> >>,
    <<"analytics",
      <<<<"a", "n", "a", "l", "y", "t", "i", "c", "s">>,
        <<"p", "e", "a", "k">>>> >>,
    <<"patient",
      <<<<"p", "a", "t", "i", "e", "n", "t">>,
        <<"e", "s", "t", "i", "m", "a", "t", "i", "o", "n">>,
        <<"l", "o", "c", "k", "b", "o", "x">>>> >>,
    <<"user_management",
      <<<<"u", "s", "e", "r", " ", "m", "a", "n", "a", "g", "e", "m", "e", "n", "t">>,
        <<"u", "s", "e", "r", " ", "g", "u", "i", "d", "e">>>> >>,
    <<"rules",
      <<<<"r", "u", "l", "e">>,
        <<"a", "l", "t", "i", "t", "u", "d", "e">>,
        <<"a", "s", "s", "i", "s", "t">>>> >>,
    <<"print",
      <<<<"p", "r", "i", "n", "t">>,
        <<"s", "e", "r", "v", "i", "c", "e", "s">>>> >>
  >>

DOMAIN_KEYWORDS ==
  <<
    <<"claims",
      <<<<"c", "l", "a", "i", "m">>,
        <<"c", "l", "a", "i", "m", "s">>,
        <<"b", "i", "l", "l", "i", "n", "g">>,
        <<"d", "e", "n", "i", "a", "l">>,
        <<"d", "e", "n", "i", "a", "l", "s">>,
        <<"a", "p", "p", "e", "a", "l">>,
        <<"p", "a", "y", "e", "r">>>> >>,
    <<"remits",
      <<<<"r", "e", "m", "i", "t">>,
        <<"r", "e", "m", "i", "t", "t", "a", "n", "c", "e">>,
        <<"d", "e", "p", "o", "s", "i", "t">>,
        <<"e", "r", "a">>,
        <<"8", "3", "5">>,
        <<"p", "a", "y", "m", "e", "n", "t">>>> >>,
    <<"analytics",
      <<<<"a", "n", "a", "l", "y", "t", "i", "c", "s">>,
        <<"r", "e", "p", "o", "r", "t">>,
        <<"d", "a", "s", "h", "b", "o", "a", "r", "d">>,
        <<"p", "e", "a", "k">>,
        <<"m", "e", "t", "r", "i", "c", "s">>,
        <<"k", "p", "i">>>> >>,
    <<"patient",
      <<<<"p", "a", "t", "i", "e", "n", "t">>,
        <<"e", "s", "t", "i", "m", "a", "t", "i", "o", "n">>,
        <<"e", "s", "t", "i", "m", "a", "t", "e">>,
        <<"l", "o", "c", "k", "b", "o", "x">>,
        <<"r", "e", "s", "p", "o", "n", "s", "i", "b", "i", "l", "i", "t", "y">>>> >>,
    <<"user_management",
      <<<<"u", "s", "e", "r">>,
        <<"p", "e", "r", "m", "i", "s", "s", "i", "o", "n">>,
        <<"r", "o", "l", "e">>,
        <<"a", "c", "c", "e", "s", "s">>,
        <<"l", "o", "g", "i", "n">>,
        <<"p", "a", "s", "s", "w", "o", "r", "d">>>> >>,
    <<"rules",
      <<<<"r", "u", "l", "e">>,
        <<"w", "i", "z", "a", "r", "d">>,
        <<"a", "l", "t", "i", "t", "u", "d", "e">>,
        <<"a", "s", "s", "i", "s", "t">>,
        <<"a", "u", "t", "o", "m", "a", "t", "i", "o", "n">>,
        <<"w", "o", "r", "k", "f", "l", "o", "w">>>> >>,
    <<"print",
      <<<<"p", "r", "i", "n", "t">>,
        <<"s", "t", "a", "t", "e", "m", "e", "n", "t">>,
        <<"b", "a", "t", "c", "h">>,
        <<"p", "a", "p", "e", "r">>>> >>
  >>

(* for domain, patterns in DOMAIN_MAPPINGS.items(): for pattern in
   patterns: if pattern in filename_lower: return domain; the empty string
   when the loops run to their end *)
RECURSIVE filename_domain(_, _)
filename_domain(filename_lower, d) ==
  IF d > Len(DOMAIN_MAPPINGS) THEN ""
  ELSE IF \E p \in 1..Len(DOMAIN_MAPPINGS[d][2]) :
            str_in(DOMAIN_MAPPINGS[d][2][p], filename_lower)
       THEN DOMAIN_MAPPINGS[d][1]
       ELSE filename_domain(filename_lower, d + 1)

(* a score that adds one for every occurrence of every keyword *)
RECURSIVE keyword_occurrences(_, _, _)
keyword_occurrences(keywords, lowered, k) ==
  IF k > Len(keywords) THEN 0
  ELSE Cardinality({a \in 0..(Len(lowered) - Len(keywords[k])) :
                      Slice(lowered, a, a + Len(keywords[k])) = keywords[k]})
       + keyword_occurrences(keywords, lowered, k + 1)

(* sum(1 for kw in keywords if kw in lowered), from keyword k on *)
RECURSIVE keyword_score(_, _, _)
keyword_score(keywords, lowered, k) ==
  IF k > Len(keywords) THEN 0
  ELSE (IF str_in(keywords[k], lowered) THEN 1 ELSE 0)
       + keyword_score(keywords, lowered, k + 1)

(* the loop over DOMAIN_KEYWORDS.items() from domain d on: the <<domain,
   score>> pairs with score > 0, in insertion order *)
RECURSIVE score_domains(_, _)
score_domains(lowered, d) ==
  IF d > Len(DOMAIN_KEYWORDS) THEN <<>>
  ELSE LET score == keyword_score(DOMAIN_KEYWORDS[d][2], lowered, 1)
           rest == score_domains(lowered, d + 1)
       IN  IF score > 0 THEN <<<<DOMAIN_KEYWORDS[d][1], score>>>> \o rest
           ELSE rest

(* a maximum that lets a later entry of equal score replace the best *)
RECURSIVE max_by_score_last(_, _, _)
max_by_score_last(scores, i, best) ==
  IF i > Len(scores) THEN scores[best][1]
  ELSE max_by_score_last(scores, i + 1,
                         IF scores[i][2] >= scores[best][2] THEN i ELSE best)

(* max(domain_scores, key=domain_scores.get): the keys are visited in
   insertion order and a later key replaces the best only when larger *)
RECURSIVE max_by_score(_, _, _)
max_by_score(scores, i, best) ==
  IF i > Len(scores) THEN scores[best][1]
  ELSE max_by_score(scores, i + 1,
                    IF scores[i][2] > scores[best][2] THEN i ELSE best)

(* the domain_scores dictionary of a call: built only when no filename
   pattern matched and a content sample was given *)
document_domain_scores(filename, content_sample) ==
  IF filename_domain(lower(filename), 1) = "" /\ content_sample # <<>>
  THEN score_domains(lower(content_sample), 1)
  ELSE <<>>

(* a classifier that looks at the content sample before the filename *)
classify_document_domain_content_first(filename, content_sample) ==
  LET scores == score_domains(lower(content_sample), 1)
      by_name == filename_domain(lower(filename), 1)
  IN  IF scores # <<>> THEN max_by_score(scores, 1, 1)
      ELSE IF by_name # "" THEN by_name
      ELSE "general"

classify_document_domain(filename, content_sample) ==
  LET filename_lower == lower(filename)
      content_lower ==
        IF content_sample # <<>> THEN lower(content_sample) ELSE <<>>
      by_name == filename_domain(filename_lower, 1)
      scores == score_domains(content_lower, 1)
  IN  IF by_name # "" THEN by_name
      ELSE IF content_sample # <<>> /\ scores # <<>>
           THEN max_by_score(scores, 1, 1)
      ELSE "general"

(* a sort that puts an entry before the entries of equal count *)
RECURSIVE sort_by_matches_unstable(_)
sort_by_matches_unstable(detected) ==
  IF detected = <<>> THEN <<>>
  ELSE LET sorted == sort_by_matches_unstable(SubSeq(detected, 1, Len(detected) - 1))
           x == detected[Len(detected)]
           k == Cardinality({i \in 1..Len(sorted) : sorted[i][2] > x[2]})
       IN  SubSeq(sorted, 1, k) \o <<x>> \o SubSeq(sorted, k + 1, Len(sorted))

(* detected_domains.sort(key=lambda x: x[1], reverse=True): list.sort is
   stable, also under reverse=True, so an entry goes behind every entry of
   greater or equal count that preceded it *)
RECURSIVE sort_by_matches(_)
sort_by_matches(detected) ==
  IF detected = <<>> THEN <<>>
  ELSE LET sorted == sort_by_matches(SubSeq(detected, 1, Len(detected) - 1))
           x == detected[Len(detected)]
           k == Cardinality({i \in 1..Len(sorted) : sorted[i][2] >= x[2]})
       IN  SubSeq(sorted, 1, k) \o <<x>> \o SubSeq(sorted, k + 1, Len(sorted))

(* the (domain, matches) list of a query after the sort *)
detected_domains(query) == sort_by_matches(score_domains(lower(query), 1))

(* return [d[0] for d in detected_domains[:3]] *)
classify_query_domain(query) ==
  LET detected == detected_domains(query)
  IN  [i \in 1..Min({3, Len(detected)}) |-> detected[i][1]]

(* [d for d in xs if d in available_domains] *)
RECURSIVE valid_domains(_, _)
valid_domains(xs, available_domains) ==
  IF xs = <<>> THEN <<>>
  ELSE (IF Head(xs) \in available_domains THEN <<Head(xs)>> ELSE <<>>)
       \o valid_domains(Tail(xs), available_domains)

(* the filter dictionaries: None, {"domain": d} and
   {"domain": {"$in": [...]}} *)
NoFilter == [kind |-> "None", domains |-> <<>>]

DomainFilter(d) == [kind |-> "domain", domains |-> <<d>>]

InFilter(ds) == [kind |-> "$in", domains |-> ds]

(* a filter builder that skips the check against available_domains *)
get_domain_filter_unchecked(query, available_domains) ==
  LET valid == classify_query_domain(query)
  IN  IF valid = <<>> THEN NoFilter
      ELSE IF Len(valid) = 1 THEN DomainFilter(valid[1])
      ELSE InFilter(valid)

get_domain_filter(query, available_domains) ==
  LET detected == classify_query_domain(query)
      valid == valid_domains(detected, available_domains)
  IN  IF detected = <<>> THEN NoFilter
      ELSE IF valid = <<>> THEN NoFilter
      ELSE IF Len(valid) = 1 THEN DomainFilter(valid[1])
      ELSE InFilter(valid)

(***************************************************************************)
(* The calls explored: filenames and content samples of at most MaxWords   *)
(* words, queries of at most MaxQueryWords words, every set of available   *)
(* domains over AvailableNames, and the filename and the query of the      *)
(* documented scenarios.                                                   *)
(***************************************************************************)
FilenameWords ==
  {<<"C", "l", "a", "i", "m", "s">>,
   <<"U", "s", "e", "r">>,
   <<"G", "u", "i", "d", "e">>,
   <<"R", "u", "l", "e", "s">>,
   <<"n", "o", "t", "e", "s">>}

ContentWords ==
  {<<"B", "i", "l", "l", "i", "n", "g">>,
   <<"r", "e", "m", "i", "t", "t", "a", "n", "c", "e">>,
   <<"d", "e", "p", "o", "s", "i", "t">>,
   <<"u", "s", "e", "r">>,
   <<"h", "e", "l", "l", "o">>}

QueryWords ==
  {<<"c", "l", "a", "i", "m">>,
   <<"r", "e", "m", "i", "t", "t", "a", "n", "c", "e">>,
   <<"r", "e", "p", "o", "r", "t">>,
   <<"u", "s", "e", "r">>,
   <<"p", "r", "i", "n", "t">>}

Scenario2Filename ==
  <<"C", "l", "a", "i", "m", "s", "_", "G", "u", "i", "d", "e", ".", "p", "d", "f">>

Scenario4Query ==
  <<"h", "o", "w", " ", "d", "o", " ", "I", " ">>
  \o <<"r", "e", "s", "e", "t", " ", "m", "y", " ">>
  \o <<"p", "a", "s", "s", "w", "o", "r", "d">>


(* the texts of 1..n words of W separated by single spaces *)
RECURSIVE Phrases(_, _)
Phrases(W, n) ==
  IF n = 1 THEN W
  ELSE LET shorter == Phrases(W, n - 1)
       IN  shorter \cup {p \o <<" ">> \o w : p \in shorter, w \in W}

Filenames ==
  {p \o <<".", "p", "d", "f">> : p \in Phrases(FilenameWords, MaxWords)}
    \cup {Scenario2Filename}

ContentSamples == {<<>>} \cup Phrases(ContentWords, MaxWords)

Queries ==
  {<<>>, Scenario4Query} \cup Phrases(QueryWords, MaxQueryWords)

AvailableNames == {"claims", "remits", "analytics", "general"}

Pending == [status |-> "pending"]

Returns(value) == [status |-> "returned", value |-> value]

InitClassify ==
  /\ chunking_idle
  /\ retrieval_idle
  /\ stack_idle
  /\ loader_idle
  /\ sync_idle
  /\ \/ \E f \in Filenames, c \in ContentSamples :
          request = [fn |-> "classify_document_domain",
                     filename |-> f, content_sample |-> c]
     \/ \E q \in Queries :
          request = [fn |-> "classify_query_domain", query |-> q]
     \/ \E q \in Queries, a \in SUBSET AvailableNames :
          request = [fn |-> "get_domain_filter",
                     query |-> q, available_domains |-> a]
  /\ response = Pending
  /\ domain_scores = <<>>

ClassifyDocument ==
  /\ request.fn = "classify_document_domain"
  /\ response = Pending
  /\ domain_scores' =
       document_domain_scores(request.filename, request.content_sample)
  /\ response' =
       Returns(classify_document_domain(request.filename,
                                        request.content_sample))
  /\ UNCHANGED <<request, chunking_vars, retrieval_vars,
                 stack_vars, loader_vars, sync_vars>>

ClassifyQuery ==
  /\ request.fn = "classify_query_domain"
  /\ response = Pending
  /\ response' = Returns(classify_query_domain(request.query))
  /\ UNCHANGED <<request, domain_scores, chunking_vars,
                 retrieval_vars, stack_vars, loader_vars,
                 sync_vars>>

GetDomainFilter ==
  /\ request.fn = "get_domain_filter"
  /\ response = Pending
  /\ response' =
       Returns(get_domain_filter(request.query, request.available_domains))
  /\ UNCHANGED <<request, domain_scores, chunking_vars,
                 retrieval_vars, stack_vars, loader_vars,
                 sync_vars>>

NextClassify == ClassifyDocument \/ ClassifyQuery \/ GetDomainFilter

SpecClassify == InitClassify /\ [][NextClassify]_vars

(***************************************************************************)
(* Properties of a finished classifier call.                               *)
(***************************************************************************)
DocumentClassified ==
  request.fn = "classify_document_domain" /\ response.status = "returned"

QueryClassified ==
  request.fn = "classify_query_domain" /\ response.status = "returned"

FilterBuilt ==
  request.fn = "get_domain_filter" /\ response.status = "returned"

DomainIds == 1..Len(DOMAIN_KEYWORDS)

(* the domains one of whose filename patterns occurs in the lowered name *)
pattern_domains(filename) ==
  {d \in 1..Len(DOMAIN_MAPPINGS) :
     \E p \in 1..Len(DOMAIN_MAPPINGS[d][2]) :
       str_in(DOMAIN_MAPPINGS[d][2][p], lower(filename))}

(* the number of keywords of domain d that occur in the lowered sample *)
keywords_present(d, sample) ==
  Cardinality({k \in 1..Len(DOMAIN_KEYWORDS[d][2]) :
                 str_in(DOMAIN_KEYWORDS[d][2][k], lower(sample))})

(* the score domain_scores holds for domain d, 0 when it has no entry *)
recorded_score(d) ==
  LET entries == {i \in 1..Len(domain_scores) :
                    domain_scores[i][1] = DOMAIN_KEYWORDS[d][1]}
  IN  IF entries = {} THEN 0 ELSE domain_scores[Min(entries)][2]

domain_index(name) == CHOOSE d \in DomainIds : DOMAIN_KEYWORDS[d][1] = name

DomainNames == {DOMAIN_KEYWORDS[d][1] : d \in DomainIds}

(* d1 comes before d2 in the ranking of a query: more keyword hits, or as
   many and earlier in the configuration *)
ranks_before(d1, d2, query) ==
  \/ keywords_present(d1, query) > keywords_present(d2, query)
  \/ /\ keywords_present(d1, query) = keywords_present(d2, query)
     /\ d1 < d2

(* C11: when the lowered filename contains a pattern of at least one
   domain, classify_document_domain returns the first such domain in the
   order of DOMAIN_MAPPINGS whatever the content sample is, and
   "Claims_Guide.pdf" without a content sample gives "claims". *)
C11_FilenamePriority ==
  DocumentClassified =>
    /\ pattern_domains(request.filename) # {} =>
         response.value =
           DOMAIN_MAPPINGS[Min(pattern_domains(request.filename))][1]
    /\ request.filename = Scenario2Filename /\ request.content_sample = <<>>
         => response.value = "claims"

(* a filename with patterns of two domains, classified together with a
   content sample whose keywords point to a third domain *)
C11_Witness ==
  /\ DocumentClassified
  /\ Cardinality(pattern_domains(request.filename)) >= 2
  /\ \E d \in DomainIds :
       /\ keywords_present(d, request.content_sample) > 0
       /\ DOMAIN_KEYWORDS[d][1] # response.value
       /\ \A m \in pattern_domains(request.filename) :
            DOMAIN_MAPPINGS[m][1] # DOMAIN_KEYWORDS[d][1]

(* C12 as stated: without a filename match and with a content sample, the
   score of every domain is the total number of occurrences of its
   keywords in the lowered sample. *)
C12_OccurrenceScore ==
  /\ DocumentClassified
  /\ pattern_domains(request.filename) = {}
  /\ request.content_sample # <<>>
  => \A d \in DomainIds :
       recorded_score(d) =
         keyword_occurrences(DOMAIN_KEYWORDS[d][2],
                             lower(request.content_sample), 1)

(* C12: without a filename match and with a content sample, the score of
   every domain is the number of its keywords that occur at least once in
   the lowered sample; a keyword that occurs several times counts once. *)
C12_KeywordsPresentScore ==
  /\ DocumentClassified
  /\ pattern_domains(request.filename) = {}
  /\ request.content_sample # <<>>
  => \A d \in DomainIds :
       recorded_score(d) = keywords_present(d, request.content_sample)

(* a sample in which a keyword occurs twice: the domain scored 1 *)
C12_Witness ==
  /\ DocumentClassified
  /\ pattern_domains(request.filename) = {}
  /\ \E d \in DomainIds :
       /\ recorded_score(d) = 1
       /\ keyword_occurrences(DOMAIN_KEYWORDS[d][2],
                              lower(request.content_sample), 1) = 2

(* C13: without a filename match, classify_document_domain returns the
   domain of highest content score, among tied domains the first in the
   order of DOMAIN_KEYWORDS, and "general" exactly when the content sample
   is empty or no domain scores above 0. *)
C13_ContentFallback ==
  DocumentClassified /\ pattern_domains(request.filename) = {} =>
    LET sample == request.content_sample
        best == {d \in DomainIds :
                   \A e \in DomainIds :
                     keywords_present(e, sample) <= keywords_present(d, sample)}
        unscored == \A d \in DomainIds : keywords_present(d, sample) = 0
    IN  /\ response.value = "general" <=> (sample = <<>> \/ unscored)
        /\ ~(sample = <<>> \/ unscored) =>
             response.value = DOMAIN_KEYWORDS[Min(best)][1]

(* two domains tie at the highest score and a third scores less; the
   earlier of the two tied domains was returned *)
C13_Witness ==
  /\ DocumentClassified
  /\ pattern_domains(request.filename) = {}
  /\ \E d1, d2 \in DomainIds :
       /\ d1 < d2
       /\ keywords_present(d1, request.content_sample) > 0
       /\ keywords_present(d1, request.content_sample)
            = keywords_present(d2, request.content_sample)
       /\ \A e \in DomainIds :
            keywords_present(e, request.content_sample)
              <= keywords_present(d1, request.content_sample)
       /\ response.value = DOMAIN_KEYWORDS[d1][1]

(* C14: classify_query_domain returns at most 3 domains, each with a
   keyword-hit count > 0 in the lowered query, ordered by descending count
   with ties in configuration order; every domain with hits that is left
   out ranks behind all returned ones; a query without hits gives the empty
   list; "how do I reset my password" includes user_management. *)
C14_QueryDomains ==
  QueryClassified =>
    LET r == response.value
        q == request.query
        hit == {d \in DomainIds : keywords_present(d, q) > 0}
    IN  /\ Len(r) <= 3
        /\ Len(r) = Min({3, Cardinality(hit)})
        /\ \A i \in 1..Len(r) :
             r[i] \in DomainNames /\ domain_index(r[i]) \in hit
        /\ \A i, j \in 1..Len(r) :
             i < j => ranks_before(domain_index(r[i]), domain_index(r[j]), q)
        /\ \A d \in hit :
             (\A i \in 1..Len(r) : r[i] # DOMAIN_KEYWORDS[d][1]) =>
               \A i \in 1..Len(r) : ranks_before(domain_index(r[i]), d, q)
        /\ hit = {} => r = <<>>
        /\ q = Scenario4Query =>
             \E i \in 1..Len(r) : r[i] = "user_management"

(* a query with hits in four domains: the first returned domain comes
   later in the configuration than the second, the second and third tie,
   and a domain with hits is left out *)
C14_Witness ==
  /\ QueryClassified
  /\ Cardinality({d \in DomainIds :
                    keywords_present(d, request.query) > 0}) >= 4
  /\ Len(response.value) = 3
  /\ domain_index(response.value[1]) > domain_index(response.value[2])
  /\ keywords_present(domain_index(response.value[2]), request.query)
       = keywords_present(domain_index(response.value[3]), request.query)

(* C15: get_domain_filter returns None when no domain of
   classify_query_domain(query) is in available_domains, {domain: d} when
   exactly one domain d remains, {domain: {$in: [...]}} with exactly the
   remaining domains in classification order when two or three remain, and
   never names a domain outside available_domains. *)
C15_DomainFilter ==
  FilterBuilt =>
    LET in_available(d) == d \in request.available_domains
        remaining == SelectSeq(classify_query_domain(request.query),
                               in_available)
        f == response.value
    IN  /\ remaining = <<>> => f = NoFilter
        /\ Len(remaining) = 1 => f = DomainFilter(remaining[1])
        /\ Len(remaining) >= 2 => f = InFilter(remaining)
        /\ Len(remaining) <= 3
        /\ \A i \in 1..Len(f.domains) :
             f.domains[i] \in request.available_domains

(* three domains detected, one of them not available: an any-of filter
   with the other two *)
C15_Witness ==
  /\ FilterBuilt
  /\ Len(classify_query_domain(request.query)) = 3
  /\ response.value.kind = "$in"
  /\ Len(response.value.domains) = 2

(***************************************************************************)
(* app/vectorstore.py, app/reranker.py and app/retrieval.py.  A document   *)
(* is the number of an entry of the indexed corpus; a formatted string is  *)
(* the sequence of its non-empty pieces.                                   *)
(***************************************************************************)
MaxDocs == 3
MaxTopK == 3
MaxScore == 1

(* RetrievalConfig.TOP_K and RetrievalConfig.RERANK_TOP_K *)
TOP_K == 20

RERANK_TOP_K == 8

(* the metadata dictionaries of the corpus: with a section, with an empty
   section, without any key, with a filename only *)
metadata(doc) ==
  CASE doc % 4 = 1 ->
         [filename |-> "claims.pdf", page |-> "3", section |-> "1. Intro"]
    [] doc % 4 = 2 ->
         [filename |-> "remits.pdf", page |-> "7", section |-> ""]
    [] doc % 4 = 3 -> [domain |-> "general"]
    [] OTHER -> [filename |-> "print.pdf"]

page_content(doc) == IF doc % 4 = 3 THEN "" ELSE "passage"

(* meta.get(key, default) *)
get(meta, key, default) ==
  IF key \in DOMAIN meta THEN meta[key] ELSE default

(* the pieces of a formatted string that a value contributes *)
piece(value) == IF value = "" THEN <<>> ELSE <<value>>

(* a slice that keeps the whole list *)
take_all(xs, n) == xs

(* xs[:n] for n >= 0 *)
take(xs, n) == SubSeq(xs, 1, Min({n, Len(xs)}))

(* a filter built from the detected domains without looking at the
   available ones *)
search_filter_unchecked(query, domain_filter, available_domains) ==
  IF ~domain_filter THEN NoFilter
  ELSE LET valid == classify_query_domain(query)
       IN  IF valid = <<>> THEN NoFilter
           ELSE IF Len(valid) = 1 THEN DomainFilter(valid[1])
           ELSE InFilter(valid)

(* lines 126-138 of similarity_search: the filter built from the query
   when domain_filter is set *)
search_filter(query, domain_filter, available_domains) ==
  IF ~domain_filter THEN NoFilter
  ELSE LET detected == classify_query_domain(query)
           valid == valid_domains(detected, available_domains)
       IN  IF valid = <<>> THEN NoFilter
           ELSE IF Len(valid) = 1 THEN DomainFilter(valid[1])
           ELSE InFilter(valid)

(* the search of the try block: filtered when filter_dict is truthy *)
first_search(k, filter_dict) == [k |-> k, filter |-> filter_dict]

(* a retry that repeats the search of the try block *)
retry_search_same(k, filter_dict) == [k |-> k, filter |-> filter_dict]

(* the search of the except block: vectorstore.similarity_search(query,
   k=k) *)
retry_search(k, filter_dict) == [k |-> k, filter |-> NoFilter]

(* a sort that puts a document before the documents of equal score *)
RECURSIVE sort_ranked_unstable(_)
sort_ranked_unstable(ranked) ==
  IF ranked = <<>> THEN <<>>
  ELSE LET sorted ==
             sort_ranked_unstable(SubSeq(ranked, 1, Len(ranked) - 1))
           x == ranked[Len(ranked)]
           k == Cardinality({i \in 1..Len(sorted) :
                               sorted[i].score > x.score})
       IN  SubSeq(sorted, 1, k) \o <<x>> \o SubSeq(sorted, k + 1, Len(sorted))

(* ranked.sort(key=lambda x: x.score, reverse=True), a stable sort *)
RECURSIVE sort_ranked(_)
sort_ranked(ranked) ==
  IF ranked = <<>> THEN <<>>
  ELSE LET sorted == sort_ranked(SubSeq(ranked, 1, Len(ranked) - 1))
           x == ranked[Len(ranked)]
           k == Cardinality({i \in 1..Len(sorted) :
                               sorted[i].score >= x.score})
       IN  SubSeq(sorted, 1, k) \o <<x>> \o SubSeq(sorted, k + 1, Len(sorted))

(* lines 91-100 of rerank_documents: zip, sort, cut, unwrap *)
ranked_documents(docs, predicted, top_k) ==
  LET ranked == [i \in 1..Min({Len(docs), Len(predicted)}) |->
                   [document |-> docs[i], score |-> predicted[i]]]
      top == take(sort_ranked(ranked), top_k)
  IN  [i \in 1..Len(top) |-> top[i].document]

(* a test that never finds the list empty *)
never_empty(docs) == FALSE

(* if not documents *)
no_documents(docs) == docs = <<>>

(* a header that names the section of every document *)
source_info_with_section(doc) ==
  LET meta == metadata(doc)
  IN  <<"SOURCE: ">> \o piece(get(meta, "filename", "Unknown"))
        \o <<" | PAGE: ">> \o piece(get(meta, "page", "?"))
        \o <<" | SECTION: ">> \o piece(get(meta, "section", ""))

(* source_info of a document, lines 52-55 *)
source_info(doc) ==
  LET meta == metadata(doc)
  IN  <<"SOURCE: ">> \o piece(get(meta, "filename", "Unknown"))
        \o <<" | PAGE: ">> \o piece(get(meta, "page", "?"))
        \o (IF get(meta, "section", "") # ""
            THEN <<" | SECTION: ", meta.section>>
            ELSE <<>>)

(* f"\n{source_info}\n{doc.page_content}\n" *)
context_part(doc) ==
  <<"\n">> \o source_info(doc) \o <<"\n">> \o piece(page_content(doc))
    \o <<"\n">>

(* "\n---\n".join(context_parts) *)
RECURSIVE context_string(_)
context_string(docs) ==
  IF docs = <<>> THEN <<>>
  ELSE IF Len(docs) = 1 THEN context_part(docs[1])
  ELSE context_part(docs[1]) \o <<"\n---\n">> \o context_string(Tail(docs))

(***************************************************************************)
(* The calls explored.                                                     *)
(***************************************************************************)
(* the lists of at most n different documents of the corpus *)
RECURSIVE DocumentLists(_)
DocumentLists(n) ==
  IF n = 0 THEN {<<>>}
  ELSE LET shorter == DocumentLists(n - 1)
           longest == {l \in shorter : Len(l) = n - 1}
       IN  shorter \cup
           {Append(p[1], p[2]) :
              p \in {q \in longest \X (1..MaxDocs) :
                       \A i \in 1..Len(q[1]) : q[1][i] # q[2]}}

(* the 20 documents of the documented re-ranker scenario *)
Scenario5Documents == [i \in 1..TOP_K |-> i]

(* a query without keyword, one of one domain and one of two domains *)
SearchQueries ==
  {<<>>,
   <<"u", "s", "e", "r">>,
   <<"c", "l", "a", "i", "m", " ", "r", "e", "p", "o", "r", "t">>}

StoreDomains == SUBSET {"claims", "analytics"}

Scores == 0..MaxScore

Ks == (1..MaxDocs) \cup {TOP_K}

TopKs == (0..MaxTopK) \cup {RERANK_TOP_K}

(* the lists a vector search for k documents can return *)
SearchResults(k) == DocumentLists(Min({k, MaxDocs}))

Running == [status |-> "running"]

Raised == [status |-> "raised"]

InitRetrieve ==
  /\ chunking_idle
  /\ classifier_idle
  /\ stack_idle
  /\ loader_idle
  /\ sync_idle
  /\ \/ /\ \E q \in SearchQueries, k \in Ks, f \in BOOLEAN :
             call = [fn |-> "similarity_search", query |-> q, k |-> k,
                     domain_filter |-> f]
        /\ rpc = "similarity_search"
        /\ documents = <<>>
        /\ ENABLE_RERANKING = TRUE
        /\ _reranker = "None"
     \/ /\ \E d \in DocumentLists(MaxDocs), t \in TopKs :
             /\ call = [fn |-> "rerank_documents", documents |-> d,
                        top_k |-> t]
             /\ documents = d
        /\ rpc = "rerank_documents"
        /\ ENABLE_RERANKING \in BOOLEAN
        /\ _reranker \in {"None", "CrossEncoder"}
     \/ /\ call = [fn |-> "rerank_documents",
                   documents |-> Scenario5Documents, top_k |-> RERANK_TOP_K]
        /\ documents = Scenario5Documents
        /\ rpc = "rerank_documents"
        /\ ENABLE_RERANKING = FALSE
        /\ _reranker \in {"None", "CrossEncoder"}
     \/ /\ \E q \in SearchQueries, t \in TopKs :
             call = [fn |-> "retrieve_context", query |-> q, top_k |-> t]
        /\ rpc = "similarity_search"
        /\ documents = <<>>
        /\ ENABLE_RERANKING \in BOOLEAN
        /\ _reranker \in {"None", "CrossEncoder"}
  /\ searches = <<>>
  /\ candidates = <<>>
  /\ rerank_path = ""
  /\ rerank_scores = <<>>
  /\ invoked = IF call.fn = "retrieve_context"
               THEN {"retrieve_context", "similarity_search"}
               ELSE {call.fn}
  /\ outcome = Running

(* the arguments of the similarity_search call in progress: those of a
   direct call, or query, k=initial_k and the default domain_filter
   (ENABLE_DOMAIN_FILTER = False) of retrieve_context line 36 *)
(* a retrieve_context that asks the search for top_k documents only *)
search_k_final == IF call.fn = "similarity_search" THEN call.k ELSE call.top_k

search_k == IF call.fn = "similarity_search" THEN call.k ELSE TOP_K

search_domain_filter ==
  IF call.fn = "similarity_search" THEN call.domain_filter ELSE FALSE

(* what get_available_domains() can return at line 129; it is called only
   when domain_filter is set *)
available_domains_read ==
  IF search_domain_filter THEN StoreDomains ELSE {{}}

(* similarity_search returns results: to the caller of a direct call, or
   into documents at retrieve_context line 36 *)
SearchReturn(results) ==
  IF call.fn = "similarity_search"
  THEN /\ rpc' = "done"
       /\ outcome' = Returns(results)
       /\ UNCHANGED documents
  ELSE /\ rpc' = "searched"
       /\ documents' = results
       /\ UNCHANGED outcome

(* an exception leaves similarity_search: retrieve_context has no handler *)
SearchRaise ==
  /\ rpc' = "done"
  /\ outcome' = Raised
  /\ UNCHANGED documents

(* line 123: get_vectorstore() raises before any search *)
GetVectorstoreRaises ==
  /\ rpc = "similarity_search"
  /\ SearchRaise
  /\ UNCHANGED <<call, ENABLE_RERANKING, _reranker, searches, candidates,
                 rerank_path, rerank_scores, invoked>>
  /\ UNCHANGED <<chunking_vars, classifier_vars, stack_vars,
                 loader_vars, sync_vars>>

(* lines 126-151: the filter is built, the search of the try block
   returns *)
SearchReturns ==
  /\ rpc = "similarity_search"
  /\ \E available \in available_domains_read,
        results \in SearchResults(search_k) :
       LET filter_dict ==
             search_filter(call.query, search_domain_filter, available)
       IN  /\ searches' =
                Append(searches,
                       [search |-> first_search(search_k, filter_dict),
                        available |-> available,
                        raised |-> FALSE, results |-> results])
           /\ SearchReturn(results)
  /\ UNCHANGED <<call, ENABLE_RERANKING, _reranker, candidates,
                 rerank_path, rerank_scores, invoked>>
  /\ UNCHANGED <<chunking_vars, classifier_vars, stack_vars,
                 loader_vars, sync_vars>>

(* lines 126-154: the filter is built, the search of the try block raises
   and control enters the except block *)
SearchRaises ==
  /\ rpc = "similarity_search"
  /\ \E available \in available_domains_read :
       LET filter_dict ==
             search_filter(call.query, search_domain_filter, available)
       IN  searches' =
             Append(searches,
                    [search |-> first_search(search_k, filter_dict),
                     available |-> available,
                     raised |-> TRUE, results |-> <<>>])
  /\ rpc' = "retry"
  /\ UNCHANGED <<call, ENABLE_RERANKING, _reranker, documents, candidates,
                 rerank_path, rerank_scores, invoked, outcome>>
  /\ UNCHANGED <<chunking_vars, classifier_vars, stack_vars,
                 loader_vars, sync_vars>>

(* line 156: the search of the except block returns *)
RetryReturns ==
  /\ rpc = "retry"
  /\ \E results \in SearchResults(search_k) :
       /\ searches' =
            Append(searches,
                   [search |-> retry_search(search_k,
                                            searches[1].search.filter),
                    available |-> {},
                    raised |-> FALSE, results |-> results])
       /\ SearchReturn(results)
  /\ UNCHANGED <<call, ENABLE_RERANKING, _reranker, candidates,
                 rerank_path, rerank_scores, invoked>>
  /\ UNCHANGED <<chunking_vars, classifier_vars, stack_vars,
                 loader_vars, sync_vars>>

(* line 156: the search of the except block raises *)
RetryRaises ==
  /\ rpc = "retry"
  /\ searches' =
       Append(searches,
              [search |-> retry_search(search_k, searches[1].search.filter),
               available |-> {},
               raised |-> TRUE, results |-> <<>>])
  /\ SearchRaise
  /\ UNCHANGED <<call, ENABLE_RERANKING, _reranker, candidates,
                 rerank_path, rerank_scores, invoked>>
  /\ UNCHANGED <<chunking_vars, classifier_vars, stack_vars,
                 loader_vars, sync_vars>>

(* retrieve_context lines 38-39 *)
RetrieveEmpty ==
  /\ rpc = "searched"
  /\ no_documents(documents)
  /\ rpc' = "done"
  /\ outcome' = Returns([documents |-> <<>>, context_string |-> <<>>])
  /\ UNCHANGED <<call, ENABLE_RERANKING, _reranker, documents, searches,
                 candidates, rerank_path, rerank_scores, invoked>>
  /\ UNCHANGED <<chunking_vars, classifier_vars, stack_vars,
                 loader_vars, sync_vars>>

(* retrieve_context lines 42-43: rerank_documents is called *)
RetrieveRerank ==
  /\ rpc = "searched"
  /\ ~no_documents(documents)
  /\ ENABLE_RERANKING
  /\ rpc' = "rerank_documents"
  /\ invoked' = invoked \cup {"rerank_documents"}
  /\ UNCHANGED <<call, ENABLE_RERANKING, _reranker, documents, searches,
                 candidates, rerank_path, rerank_scores, outcome>>
  /\ UNCHANGED <<chunking_vars, classifier_vars, stack_vars,
                 loader_vars, sync_vars>>

(* retrieve_context lines 44-45 *)
RetrieveTruncate ==
  /\ rpc = "searched"
  /\ ~no_documents(documents)
  /\ ~ENABLE_RERANKING
  /\ candidates' = documents
  /\ documents' = take(documents, call.top_k)
  /\ rpc' = "format"
  /\ UNCHANGED <<call, ENABLE_RERANKING, _reranker, searches, rerank_path,
                 rerank_scores, invoked, outcome>>
  /\ UNCHANGED <<chunking_vars, classifier_vars, stack_vars,
                 loader_vars, sync_vars>>

(* rerank_documents returns value by the way path: to the caller of a
   direct call, or into documents at retrieve_context line 43 *)
RerankReturn(value, path) ==
  /\ candidates' = documents
  /\ rerank_path' = path
  /\ IF call.fn = "rerank_documents"
     THEN /\ rpc' = "done"
          /\ outcome' = Returns(value)
          /\ UNCHANGED documents
     ELSE /\ rpc' = "format"
          /\ documents' = value
          /\ UNCHANGED outcome

(* rerank_documents lines 71-72 *)
RerankEmpty ==
  /\ rpc = "rerank_documents"
  /\ documents = <<>>
  /\ RerankReturn(<<>>, "empty")
  /\ UNCHANGED <<call, ENABLE_RERANKING, _reranker, searches, rerank_scores,
                 invoked>>
  /\ UNCHANGED <<chunking_vars, classifier_vars, stack_vars,
                 loader_vars, sync_vars>>

(* rerank_documents lines 74-75 *)
RerankDisabled ==
  /\ rpc = "rerank_documents"
  /\ documents # <<>>
  /\ ~ENABLE_RERANKING
  /\ RerankReturn(take(documents, call.top_k), "disabled")
  /\ UNCHANGED <<call, ENABLE_RERANKING, _reranker, searches, rerank_scores,
                 invoked>>
  /\ UNCHANGED <<chunking_vars, classifier_vars, stack_vars,
                 loader_vars, sync_vars>>

(* load_reranker lines 29-30: the global is already set *)
LoadCached ==
  /\ rpc = "rerank_documents"
  /\ documents # <<>>
  /\ ENABLE_RERANKING
  /\ _reranker # "None"
  /\ rpc' = "predict"
  /\ UNCHANGED <<call, ENABLE_RERANKING, _reranker, documents, searches,
                 candidates, rerank_path, rerank_scores, invoked, outcome>>
  /\ UNCHANGED <<chunking_vars, classifier_vars, stack_vars,
                 loader_vars, sync_vars>>

(* load_reranker lines 32-41: the model is constructed and kept *)
LoadConstructs ==
  /\ rpc = "rerank_documents"
  /\ documents # <<>>
  /\ ENABLE_RERANKING
  /\ _reranker = "None"
  /\ _reranker' = "CrossEncoder"
  /\ rpc' = "predict"
  /\ UNCHANGED <<call, ENABLE_RERANKING, documents, searches, candidates,
                 rerank_path, rerank_scores, invoked, outcome>>
  /\ UNCHANGED <<chunking_vars, classifier_vars, stack_vars,
                 loader_vars, sync_vars>>

(* load_reranker lines 43-48 returns None after an ImportError or another
   exception; rerank_documents lines 79-81 *)
LoadFails ==
  /\ rpc = "rerank_documents"
  /\ documents # <<>>
  /\ ENABLE_RERANKING
  /\ _reranker = "None"
  /\ \E error \in {"ImportError", "Exception"} :
       RerankReturn(take(documents, call.top_k), error)
  /\ UNCHANGED <<call, ENABLE_RERANKING, _reranker, searches, rerank_scores,
                 invoked>>
  /\ UNCHANGED <<chunking_vars, classifier_vars, stack_vars,
                 loader_vars, sync_vars>>

(* rerank_documents lines 85-88 raise; lines 102-104 *)
PredictRaises ==
  /\ rpc = "predict"
  /\ RerankReturn(take(documents, call.top_k), "predict raised")
  /\ UNCHANGED <<call, ENABLE_RERANKING, _reranker, searches, rerank_scores,
                 invoked>>
  /\ UNCHANGED <<chunking_vars, classifier_vars, stack_vars,
                 loader_vars, sync_vars>>

(* rerank_documents lines 85-100: predict gives one score per pair *)
PredictReturns ==
  /\ rpc = "predict"
  /\ \E predicted \in [1..Len(documents) -> Scores] :
       /\ rerank_scores' = predicted
       /\ RerankReturn(ranked_documents(documents, predicted, call.top_k),
                       "scored")
  /\ UNCHANGED <<call, ENABLE_RERANKING, _reranker, searches, invoked>>
  /\ UNCHANGED <<chunking_vars, classifier_vars, stack_vars,
                 loader_vars, sync_vars>>

(* retrieve_context lines 48-61 *)
FormatContext ==
  /\ rpc = "format"
  /\ invoked' = invoked \cup {"context"}
  /\ rpc' = "done"
  /\ outcome' = Returns([documents |-> documents,
                           context_string |-> context_string(documents)])
  /\ UNCHANGED <<call, ENABLE_RERANKING, _reranker, documents, searches,
                 candidates, rerank_path, rerank_scores>>
  /\ UNCHANGED <<chunking_vars, classifier_vars, stack_vars,
                 loader_vars, sync_vars>>

NextRetrieve ==
  \/ GetVectorstoreRaises
  \/ SearchReturns
  \/ SearchRaises
  \/ RetryReturns
  \/ RetryRaises
  \/ RetrieveEmpty
  \/ RetrieveRerank
  \/ RetrieveTruncate
  \/ RerankEmpty
  \/ RerankDisabled
  \/ LoadCached
  \/ LoadConstructs
  \/ LoadFails
  \/ PredictRaises
  \/ PredictReturns
  \/ FormatContext

SpecRetrieve == InitRetrieve /\ [][NextRetrieve]_vars

(***************************************************************************)
(* Properties of the retrieval calls.                                      *)
(***************************************************************************)
(* rerank_documents has returned *)
Reranked == rerank_path # ""

(* the list rerank_documents returned *)
rerank_output ==
  IF call.fn = "rerank_documents" THEN outcome.value ELSE documents

(* the place of a document in the list handed to rerank_documents *)
candidate_index(doc) ==
  CHOOSE i \in 1..Len(candidates) : candidates[i] = doc

(* the score predict gave to a document *)
score_of(doc) == rerank_scores[candidate_index(doc)]

(* similarity_search is over: it returned or raised *)
SearchFinished == searches # <<>> /\ rpc \notin {"similarity_search", "retry"}

last_search == searches[Len(searches)]

(* C17: when re-ranking is disabled in configuration, or load_reranker
   gives no model, or scoring raises, rerank_documents returns exactly the
   first top_k input documents in their original order and raises nothing;
   20 inputs with top_k = 8 give the first 8 inputs. *)
C17_RerankerFallback ==
  /\ /\ Reranked
     /\ \/ ~ENABLE_RERANKING
        \/ rerank_path \in {"ImportError", "Exception", "predict raised"}
     => /\ Len(rerank_output) = Min({call.top_k, Len(candidates)})
        /\ \A i \in 1..Len(rerank_output) : rerank_output[i] = candidates[i]
  /\ call.fn = "rerank_documents" => outcome.status # "raised"
  /\ /\ Reranked
     /\ call.fn = "rerank_documents"
     /\ call.documents = Scenario5Documents
     => outcome.value = [i \in 1..RERANK_TOP_K |-> i]

(* scoring raised on a list longer than top_k: a shorter, non-empty list
   came back *)
C17_Witness ==
  /\ rerank_path = "predict raised"
  /\ call.top_k >= 1
  /\ Len(candidates) > call.top_k
  /\ Len(rerank_output) = call.top_k

(* C18: when scoring succeeds, rerank_documents returns min(top_k, number
   of inputs) documents, all from the input and none twice, in descending
   score with documents of equal score in their input order, and no omitted
   document scores higher than a returned one. *)
C18_RerankerOrdering ==
  rerank_path = "scored" =>
    LET out == rerank_output
    IN  /\ Len(out) = Min({call.top_k, Len(candidates)})
        /\ \A i \in 1..Len(out) : \E j \in 1..Len(candidates) :
             out[i] = candidates[j]
        /\ \A i, j \in 1..Len(out) : i # j => out[i] # out[j]
        /\ \A i, j \in 1..Len(out) :
             i < j =>
               \/ score_of(out[i]) > score_of(out[j])
               \/ /\ score_of(out[i]) = score_of(out[j])
                  /\ candidate_index(out[i]) < candidate_index(out[j])
        /\ \A j \in 1..Len(candidates) :
             (\A i \in 1..Len(out) : out[i] # candidates[j]) =>
               \A i \in 1..Len(out) : rerank_scores[j] <= score_of(out[i])

(* three scored documents cut to two: the first input document was left
   out and the two returned ones have the same score *)
C18_Witness ==
  /\ rerank_path = "scored"
  /\ Len(candidates) = 3
  /\ Len(rerank_output) = 2
  /\ rerank_output[1] # candidates[1]
  /\ rerank_output[2] # candidates[1]
  /\ score_of(rerank_output[1]) = score_of(rerank_output[2])

(* C19: similarity_search issues at most two vector searches; when the
   first one raises, exactly one more is issued and it has no filter; when
   that one returns, its results are returned and nothing is raised; an
   error leaves similarity_search after a raised first search only when the
   retry raised too. *)
C19_SearchRetry ==
  /\ Len(searches) <= 2
  /\ SearchFinished /\ ~searches[1].raised => Len(searches) = 1
  /\ SearchFinished /\ searches[1].raised =>
       /\ Len(searches) = 2
       /\ searches[2].search.filter = NoFilter
       /\ ~searches[2].raised =>
            /\ outcome.status # "raised"
            /\ call.fn = "similarity_search" =>
                 outcome = Returns(searches[2].results)
            /\ rpc = "searched" => documents = searches[2].results
       /\ outcome.status = "raised" => searches[2].raised

(* a filtered first search raised, the retry returned documents *)
C19_Witness ==
  /\ call.fn = "similarity_search"
  /\ rpc = "done"
  /\ Len(searches) = 2
  /\ searches[1].search.filter.kind = "$in"
  /\ searches[1].raised
  /\ ~searches[2].raised
  /\ outcome.status = "returned"
  /\ outcome.value # <<>>

(* C20: when the similarity search returns no documents, retrieve_context
   returns the empty list and the empty context string, raises nothing and
   enters neither rerank_documents nor the context assembly; and the
   context string is not empty when at least one document is returned. *)
C20_EmptyRetrieval ==
  call.fn = "retrieve_context" /\ rpc = "done" =>
    /\ searches # <<>> /\ ~last_search.raised /\ last_search.results = <<>>
       => /\ outcome =
               Returns([documents |-> <<>>, context_string |-> <<>>])
          /\ "rerank_documents" \notin invoked
          /\ "context" \notin invoked
    /\ outcome.status = "returned" /\ outcome.value.documents # <<>>
       => outcome.value.context_string # <<>>

(* with re-ranking enabled, the retry of a raised search returned no
   documents and retrieve_context returned *)
C20_Witness ==
  /\ call.fn = "retrieve_context"
  /\ rpc = "done"
  /\ ENABLE_RERANKING
  /\ Len(searches) = 2
  /\ last_search.results = <<>>
  /\ ~last_search.raised
  /\ outcome.status = "returned"

(* retrieve_context returned a pair *)
ContextReturned ==
  /\ call.fn = "retrieve_context"
  /\ rpc = "done"
  /\ outcome.status = "returned"

(* C21: retrieve_context asks the search for initial_k = TOP_K candidates
   and returns at most top_k documents, each one of the candidates the
   search returned; with re-ranking enabled they are what rerank_documents
   returned for the whole candidate list, with re-ranking disabled they are
   the first top_k candidates in search order. *)
C21_RerankStage ==
  /\ call.fn = "retrieve_context" =>
       \A s \in 1..Len(searches) : searches[s].search.k = TOP_K
  /\ ContextReturned /\ last_search.results # <<>> =>
       LET found == last_search.results
           out == outcome.value.documents
       IN  /\ Len(out) <= call.top_k
           /\ \A i \in 1..Len(out) : \E j \in 1..Len(found) : out[i] = found[j]
           /\ ENABLE_RERANKING =>
                /\ "rerank_documents" \in invoked
                /\ Reranked
                /\ candidates = found
                /\ rerank_path = "scored" =>
                     out = ranked_documents(found, rerank_scores, call.top_k)
                /\ rerank_path # "scored" =>
                     /\ Len(out) = Min({call.top_k, Len(found)})
                     /\ \A i \in 1..Len(out) : out[i] = found[i]
           /\ ~ENABLE_RERANKING =>
                /\ "rerank_documents" \notin invoked
                /\ Len(out) = Min({call.top_k, Len(found)})
                /\ \A i \in 1..Len(out) : out[i] = found[i]

(* three candidates were scored and cut to two, and the first candidate is
   not the first returned document *)
C21_Witness ==
  /\ ContextReturned
  /\ rerank_path = "scored"
  /\ Len(last_search.results) = 3
  /\ Len(outcome.value.documents) = 2
  /\ outcome.value.documents[1] # last_search.results[1]

(* C22: the context string of retrieve_context is one block per returned
   document, in the order of the returned list, joined by the separator
   line; a block is the header "SOURCE: <filename> | PAGE: <page>", with
   " | SECTION: <section>" exactly when the section metadata is present
   and not empty, followed by the passage text. *)
C22_ContextAssembly ==
  ContextReturned =>
    LET docs == outcome.value.documents
        blocks == split(outcome.value.context_string, <<"\n---\n">>)
    IN  /\ docs = <<>> => outcome.value.context_string = <<>>
        /\ docs # <<>> =>
             /\ Len(blocks) = Len(docs)
             /\ \A i \in 1..Len(docs) :
                  LET meta == metadata(docs[i])
                      filename == IF "filename" \in DOMAIN meta
                                  THEN <<meta.filename>> ELSE <<"Unknown">>
                      page == IF "page" \in DOMAIN meta
                              THEN <<meta.page>> ELSE <<"?">>
                      section == IF "section" \in DOMAIN meta
                                 THEN meta.section ELSE ""
                      body == IF page_content(docs[i]) = ""
                              THEN <<>> ELSE <<page_content(docs[i])>>
                  IN  blocks[i] =
                        <<"\n", "SOURCE: ">> \o filename
                          \o <<" | PAGE: ">> \o page
                          \o (IF section # ""
                              THEN <<" | SECTION: ", section>> ELSE <<>>)
                          \o <<"\n">> \o body \o <<"\n">>

(* three documents were returned: one with a section, one with an empty
   section and one without metadata *)
C22_Witness ==
  /\ ContextReturned
  /\ Len(outcome.value.documents) = 3
  /\ \E i, j, k \in 1..3 :
       /\ get(metadata(outcome.value.documents[i]), "section", "") # ""
       /\ get(metadata(outcome.value.documents[j]), "section", "x") = ""
       /\ "section" \notin DOMAIN metadata(outcome.value.documents[k])

(* C29: with domain filtering on, the filter of the first search of
   similarity_search is get_domain_filter(query, available_domains) for the
   available domains read from the store; with domain filtering off, every
   search is issued without a filter. *)
C29_FilterEquivalence ==
  searches # <<>> =>
    /\ search_domain_filter =>
         searches[1].search.filter =
           get_domain_filter(call.query, searches[1].available)
    /\ ~search_domain_filter =>
         \A s \in 1..Len(searches) : searches[s].search.filter = NoFilter

(* two domains were detected in the query and one of them is available:
   the search was issued with the single-domain filter *)
C29_Witness ==
  /\ searches # <<>>
  /\ search_domain_filter
  /\ Len(classify_query_domain(call.query)) = 2
  /\ searches[1].search.filter.kind = "domain"

(* C28: the returned chunks are in document order: start_char never
   decreases along the returned list. *)
C28_ChunkOrder ==
  Returned =>
    \A i \in 1..(Len(chunks) - 1) :
      chunks[i].start_char <= chunks[i + 1].start_char

(* the offsets 0, s, 2s, ... < n with s = chunk_size - chunk_overlap *)
window_starts(n) ==
  {i \in 0..(n - 1) : i % (chunk_size - chunk_overlap) = 0}

(* segment[i : i + chunk_size] *)
window_at(segment, i) ==
  Slice(segment, i, Min({i + chunk_size, Len(segment)}))

(* the chunks out are the windows of segment that are long enough after
   trimming, in increasing offset, placed from start on *)
is_windows_of(out, segment, start) ==
  LET K == {i \in window_starts(Len(segment)) :
              Len(strip(window_at(segment, i))) >= min_chunk_size}
      nth(j) == CHOOSE i \in K : Cardinality({k \in K : k < i}) = j - 1
  IN  /\ Len(out) = Cardinality(K)
      /\ \A j \in 1..Len(out) :
           /\ out[j].content = strip(window_at(segment, nth(j)))
           /\ out[j].start_char = start + nth(j)
           /\ out[j].end_char
                = out[j].start_char + Len(window_at(segment, nth(j)))

(* no separator of the hierarchy occurs in t *)
unbreakable(t) ==
  \A k \in 1..Len(separators) : ~occurs_in(separators[k], t)

(* C25: a segment longer than chunk_size that arrives at the end of the
   separator hierarchy is cut into the windows segment[i : i + chunk_size],
   i = 0, s, 2s, ... < len(segment), s = chunk_size - chunk_overlap; every
   window of trimmed length >= min_chunk_size is emitted with start_char =
   segment start + i and end_char = start_char + window length, in
   increasing i, and nothing else is emitted. *)
C25_ForcedWindows ==
  /\ pc = "split" /\ Len(text) <= MaxStepLen =>
       \A a \in 0..Len(text), b \in 0..Len(text) :
         b - a > chunk_size =>
           is_windows_of(split_recursive(Slice(text, a, b), a,
                                         Len(separators), a, FALSE),
                         Slice(text, a, b), a)
  /\ Returned /\ unbreakable(text) /\ Len(text) > chunk_size =>
       is_windows_of(chunks, text, 0)

(* a text without separator was cut into overlapping windows, at least
   two were returned and a shorter last one was dropped *)
C25_Witness ==
  /\ Returned
  /\ unbreakable(text)
  /\ Len(text) > chunk_size
  /\ chunk_overlap >= 1
  /\ min_chunk_size >= 1
  /\ Len(chunks) >= 2
  /\ Len(chunks) < Cardinality(window_starts(Len(text)))

(***************************************************************************)
(* split_recursive one step at a time.  A frame is one call in progress:   *)
(* its arguments, the statement it stands at, and the locals parts, the    *)
(* loop position i, result, current_chunk and current_start.  src,        *)
(* cur_src and ov are the history fields of the chunks it will emit.       *)
(***************************************************************************)
(* a call that has just been entered *)
Frame(text_segment, start_offset, sep_index, src, ov) ==
  [text_segment |-> text_segment, start_offset |-> start_offset,
   sep_index |-> sep_index, src |-> src, ov |-> ov, at |-> "enter",
   parts |-> <<>>, i |-> 0, result |-> <<>>, current_chunk |-> <<>>,
   current_start |-> start_offset, cur_src |-> src]

depth == Len(stack)

top == stack[depth]

callers == SubSeq(stack, 1, depth - 1)

replace_top(f) == Append(callers, f)

(* the loop variable advanced by the overlap instead *)
window_step_overlap == chunk_overlap

(* the advance of the forced split's loop variable,
   range(0, len(text_segment), chunk_size - chunk_overlap) *)
window_step == chunk_size - chunk_overlap

(* the part the loop stands at, with the separator put back on every part
   but the last *)
part_with_sep_at(f) ==
  IF f.i < Len(f.parts) THEN f.parts[f.i] \o separators[f.sep_index + 1]
  ELSE f.parts[f.i]

(* result after "if current_chunk.strip() and len(...) >= min_chunk_size:
   result.append(Chunk(...))" *)
flush(f, site) ==
  IF keeps(f.current_chunk)
  THEN Append(f.result,
              Chunk(f.current_chunk, f.current_start,
                    find_current_section(f.current_start, headers),
                    f.cur_src, site, f.ov))
  ELSE f.result

(* the buffer rebuilt after a flush *)
rebuilt(f) ==
  IF with_overlap(f.current_chunk)
  THEN overlap_text(f.current_chunk) \o part_with_sep_at(f)
  ELSE part_with_sep_at(f)

rebuilt_start(f) ==
  IF with_overlap(f.current_chunk)
  THEN overlap_start(f.current_start, rebuilt(f),
                     overlap_text(f.current_chunk), part_with_sep_at(f))
  ELSE restart_start(f.start_offset, f.parts, f.i,
                     separators[f.sep_index + 1])

rebuilt_src(f) ==
  IF with_overlap(f.current_chunk)
  THEN f.cur_src + Len(f.current_chunk) - Len(overlap_text(f.current_chunk))
  ELSE f.src + parts_length(f.parts, f.i - 1, separators[f.sep_index + 1])

(* the caller's frame once the call it made has returned value *)
resumed(f, value) ==
  IF f.at = "tail"
  THEN [f EXCEPT !.result = value, !.at = "return"]
  ELSE [f EXCEPT !.result = f.result \o value, !.current_chunk = <<>>,
                 !.i = f.i + 1, !.at = "loop"]

InitSteps ==
  /\ text \in Texts(MaxStepLen)
  /\ chunk_size \in 1..MaxChunk
  /\ chunk_overlap \in 0..(chunk_size - 1)
  /\ min_chunk_size \in 0..MaxMin
  /\ headers = <<>>
  /\ chunks = <<>>
  /\ pc = "start"
  /\ classifier_idle
  /\ retrieval_idle
  /\ stack_idle
  /\ loader_idle
  /\ sync_idle

Stepping == pc = "running" /\ depth >= 1

step_to(frames) ==
  /\ stack' = frames
  /\ UNCHANGED chunking_vars
  /\ UNCHANGED <<classifier_vars, retrieval_vars, loader_vars, sync_vars>>

(* return split_recursive(text, 0): the outermost call is entered *)
Call ==
  /\ pc = "split"
  /\ stack' = <<Frame(text, 0, 0, 0, FALSE)>>
  /\ pc' = "running"
  /\ UNCHANGED <<text, chunk_size, chunk_overlap, min_chunk_size, headers,
                 chunks>>
  /\ UNCHANGED <<classifier_vars, retrieval_vars, loader_vars, sync_vars>>

(* if len(text_segment) <= chunk_size: return the segment as one chunk, or
   nothing *)
BaseCase ==
  /\ Stepping
  /\ top.at = "enter"
  /\ Len(top.text_segment) <= chunk_size
  /\ step_to(replace_top(
       [top EXCEPT !.at = "return",
                   !.result =
                     IF keeps(top.text_segment)
                     THEN <<Chunk(top.text_segment, top.start_offset,
                                  find_current_section(top.start_offset,
                                                       headers),
                                  top.src, "base", top.ov)>>
                     ELSE <<>>]))

(* if sep_index >= len(separators): the forced split begins *)
ForceSplit ==
  /\ Stepping
  /\ top.at = "enter"
  /\ Len(top.text_segment) > chunk_size
  /\ top.sep_index >= Len(separators)
  /\ step_to(replace_top([top EXCEPT !.at = "window", !.i = 0]))

(* one pass of "for i in range(0, len(text_segment), chunk_size -
   chunk_overlap)" *)
ForceWindow ==
  /\ Stepping
  /\ top.at = "window"
  /\ top.i < Len(top.text_segment)
  /\ LET hi == Min({top.i + chunk_size, Len(top.text_segment)})
         raw == Slice(top.text_segment, top.i, hi)
     IN  step_to(replace_top(
           [top EXCEPT !.i = top.i + window_step,
                       !.result =
                         IF keeps(raw)
                         THEN Append(top.result,
                                Chunk(raw, top.start_offset + top.i,
                                      window_section(top.start_offset,
                                                     top.i),
                                      top.src + top.i, "window", top.ov))
                         ELSE top.result]))

(* the range is exhausted: return result *)
ForceSplitEnd ==
  /\ Stepping
  /\ top.at = "window"
  /\ top.i >= Len(top.text_segment)
  /\ step_to(replace_top([top EXCEPT !.at = "return"]))

(* if len(parts) == 1: return split_recursive(text_segment, start_offset,
   sep_index + 1) *)
SeparatorNotFound ==
  /\ Stepping
  /\ top.at = "enter"
  /\ Len(top.text_segment) > chunk_size
  /\ top.sep_index < Len(separators)
  /\ Len(split(top.text_segment, separators[top.sep_index + 1])) = 1
  /\ step_to(Append(replace_top([top EXCEPT !.at = "tail"]),
                    Frame(top.text_segment, top.start_offset,
                          top.sep_index + 1, top.src, top.ov)))

(* parts = text_segment.split(separator); result = []; current_chunk = "";
   current_start = start_offset *)
LoopStart ==
  /\ Stepping
  /\ top.at = "enter"
  /\ Len(top.text_segment) > chunk_size
  /\ top.sep_index < Len(separators)
  /\ LET parts == split(top.text_segment, separators[top.sep_index + 1])
     IN  /\ Len(parts) > 1
         /\ step_to(replace_top(
              [top EXCEPT !.at = "loop", !.parts = parts, !.i = 1]))

(* if len(current_chunk) + len(part_with_sep) <= chunk_size:
   current_chunk += part_with_sep *)
PartFits ==
  /\ Stepping
  /\ top.at = "loop"
  /\ top.i <= Len(top.parts)
  /\ fits(top.current_chunk, part_with_sep_at(top))
  /\ step_to(replace_top(
       [top EXCEPT !.current_chunk = top.current_chunk
                                       \o part_with_sep_at(top),
                   !.cur_src =
                     IF top.current_chunk = <<>>
                     THEN top.src + parts_length(top.parts, top.i - 1,
                                      separators[top.sep_index + 1])
                     ELSE top.cur_src,
                   !.i = top.i + 1]))

(* else: the buffer is flushed and rebuilt from the overlap and the part;
   the rebuilt buffer is within chunk_size *)
PartOverflows ==
  /\ Stepping
  /\ top.at = "loop"
  /\ top.i <= Len(top.parts)
  /\ ~fits(top.current_chunk, part_with_sep_at(top))
  /\ ~too_large(rebuilt(top))
  /\ step_to(replace_top(
       [top EXCEPT !.result = flush(top, "flush"),
                   !.current_chunk = rebuilt(top),
                   !.current_start = rebuilt_start(top),
                   !.cur_src = rebuilt_src(top),
                   !.i = top.i + 1]))

(* else: the buffer is flushed and rebuilt, and the rebuilt buffer is
   longer than chunk_size: result.extend(split_recursive(current_chunk,
   current_start, sep_index + 1)) is entered *)
PartRecurses ==
  /\ Stepping
  /\ top.at = "loop"
  /\ top.i <= Len(top.parts)
  /\ ~fits(top.current_chunk, part_with_sep_at(top))
  /\ too_large(rebuilt(top))
  /\ step_to(Append(replace_top(
                      [top EXCEPT !.result = flush(top, "flush"),
                                  !.current_chunk = rebuilt(top),
                                  !.current_start = rebuilt_start(top),
                                  !.cur_src = rebuilt_src(top),
                                  !.at = "extend"]),
                    Frame(rebuilt(top), rebuilt_start(top),
                          top.sep_index + 1, rebuilt_src(top),
                          top.ov \/ with_overlap(top.current_chunk))))

(* the loop is over: the last buffer is flushed *)
FinalFlush ==
  /\ Stepping
  /\ top.at = "loop"
  /\ top.i > Len(top.parts)
  /\ step_to(replace_top(
       [top EXCEPT !.result = flush(top, "final"), !.at = "return"]))

(* return result, to a caller that goes on *)
Return ==
  /\ Stepping
  /\ top.at = "return"
  /\ depth > 1
  /\ step_to(Append(SubSeq(stack, 1, depth - 2),
                    resumed(stack[depth - 1], top.result)))

(* return result, out of the outermost call *)
ReturnChunks ==
  /\ Stepping
  /\ top.at = "return"
  /\ depth = 1
  /\ chunks' = top.result
  /\ stack' = <<>>
  /\ pc' = "done"
  /\ UNCHANGED <<text, chunk_size, chunk_overlap, min_chunk_size, headers>>
  /\ UNCHANGED <<classifier_vars, retrieval_vars, loader_vars, sync_vars>>

NextSteps ==
  \/ ReturnEmpty \/ ExtractHeaders \/ Call
  \/ BaseCase \/ ForceSplit \/ ForceWindow \/ ForceSplitEnd
  \/ SeparatorNotFound \/ LoopStart
  \/ PartFits \/ PartOverflows \/ PartRecurses \/ FinalFlush
  \/ Return \/ ReturnChunks

SpecSteps == InitSteps /\ [][NextSteps]_vars

(* a call that was started keeps running: the interpreter executes the
   next statement *)
FairSpecSteps == SpecSteps /\ WF_vars(NextSteps)

(* the steps return what split_recursive returns *)
StepsAgree ==
  Returned =>
    chunks = IF degenerate(text) THEN <<>>
             ELSE split_recursive(text, 0, 0, 0, FALSE)

(***************************************************************************)
(* Properties of the steps of split_recursive.                             *)
(***************************************************************************)
(* the loop stands at a part that does not fit into the buffer *)
overflowing ==
  /\ Stepping
  /\ top.at = "loop"
  /\ top.i <= Len(top.parts)
  /\ Len(top.current_chunk) + Len(part_with_sep_at(top)) > chunk_size

(* the trailing chunk_overlap characters of a buffer, nothing when the
   overlap is 0 or the buffer is empty *)
carried_over(buffer) ==
  IF chunk_overlap = 0 \/ buffer = <<>> THEN <<>>
  ELSE SubSeq(buffer, Max({1, Len(buffer) - chunk_overlap + 1}), Len(buffer))

(* a call made from the loop has returned to it *)
resuming ==
  /\ Stepping
  /\ depth > 1
  /\ top.at = "return"
  /\ stack[depth - 1].at = "extend"

(* C26: when the next part would overflow the buffer, the new buffer is the
   trailing chunk_overlap characters of the flushed buffer followed by the
   part with its separator, and nothing is prepended when chunk_overlap is
   0 or the buffer was empty; a new buffer longer than chunk_size is handed
   to split_recursive with the next separator index, and when that call
   returns the loop goes on to the next part from an empty buffer. *)
C26_OverlapCarryOver ==
  [][/\ overflowing =>
          LET new_buffer == carried_over(top.current_chunk)
                              \o part_with_sep_at(top)
          IN  IF Len(new_buffer) > chunk_size
              THEN /\ Len(stack') = depth + 1
                   /\ stack'[depth].at = "extend"
                   /\ stack'[depth].current_chunk = new_buffer
                   /\ stack'[depth + 1].at = "enter"
                   /\ stack'[depth + 1].text_segment = new_buffer
                   /\ stack'[depth + 1].sep_index = top.sep_index + 1
              ELSE /\ Len(stack') = depth
                   /\ stack'[depth].at = "loop"
                   /\ stack'[depth].current_chunk = new_buffer
                   /\ stack'[depth].i = top.i + 1
     /\ resuming =>
          /\ Len(stack') = depth - 1
          /\ stack'[depth - 1].at = "loop"
          /\ stack'[depth - 1].current_chunk = <<>>
          /\ stack'[depth - 1].i = stack[depth - 1].i + 1
    ]_vars

(* a buffer rebuilt from a shortened overlap and a part was longer than
   chunk_size, was split with the next separator, and the call is about to
   return to the loop *)
C26_Witness ==
  /\ resuming
  /\ chunk_overlap >= 1
  /\ top.ov /\ ~stack[depth - 1].ov
  /\ Len(top.text_segment) > chunk_size
  /\ top.sep_index = stack[depth - 1].sep_index + 1
  /\ Len(stack[depth - 1].result) >= 1
  /\ raw_length(stack[depth - 1].result[Len(stack[depth - 1].result)])
       > chunk_overlap

(* C27: with chunk_size >= 1 and 0 <= chunk_overlap < chunk_size every call
   of recursive_text_splitter returns: each call of split_recursive in
   progress has a strictly larger separator index than its caller, so at
   most len(separators) + 1 calls are in progress, and every pass of the
   forced-window loop moves its position forward. *)
C27_Termination ==
  /\ [](pc = "running" =>
          /\ depth <= Len(separators) + 1
          /\ \A k \in 2..depth :
               stack[k].sep_index > stack[k - 1].sep_index)
  /\ [][Stepping /\ top.at = "window" /\ Len(stack') = depth
          /\ stack'[depth].at = "window"
        => stack'[depth].i > top.i]_vars
  /\ <>Returned

(* the forced split was reached through every separator and its loop has
   made a pass *)
C27_Witness ==
  /\ Stepping
  /\ depth = Len(separators) + 1
  /\ top.at = "window"
  /\ top.i > 0 /\ top.i < Len(top.text_segment)

(***************************************************************************)
(* load_reranker of app/reranker.py called from several script threads of  *)
(* one process: every browser session runs main.py in a thread of its own, *)
(* and main.py calls get_reranker_status and, through retrieve_context,    *)
(* rerank_documents.  load_reranker takes no lock, so its statements       *)
(* interleave: line 29 reads the global, line 30 reads it again to return  *)
(* it, line 36 constructs the model and then stores it, line 41 reads the  *)
(* global again to return it.                                              *)
(***************************************************************************)
MaxCallers == 3

Callers == 1..MaxCallers

(* the k-th CrossEncoder object constructed in the process *)
Instances ==
  <<"CrossEncoder@1", "CrossEncoder@2", "CrossEncoder@3", "CrossEncoder@4">>

not_called == [fn |-> "", at |-> "idle", model |-> "None", seen |-> "unset"]

InitLoad ==
  /\ loading = [c \in Callers |-> not_called]
  /\ constructed = <<>>
  /\ assigned = <<>>
  /\ ENABLE_RERANKING \in BOOLEAN
  /\ _reranker = "None"
  /\ call = [fn |-> "idle"]
  /\ rpc = "idle"
  /\ documents = <<>>
  /\ searches = <<>>
  /\ candidates = <<>>
  /\ rerank_path = ""
  /\ rerank_scores = <<>>
  /\ invoked = {}
  /\ outcome = [status |-> "idle"]
  /\ chunking_idle
  /\ classifier_idle
  /\ stack_idle
  /\ sync_idle

(* a statement of caller c that leaves the global and the histories alone *)
caller_step(c, after) ==
  /\ loading' = [loading EXCEPT ![c] = after]
  /\ UNCHANGED <<constructed, assigned>>
  /\ UNCHANGED retrieval_vars
  /\ UNCHANGED <<chunking_vars, classifier_vars, stack_vars, sync_vars>>

(* rerank_documents lines 74-75 / get_reranker_status lines 109-110 with
   re-ranking disabled: load_reranker is not called *)
EnterDisabled(c) ==
  /\ loading[c].at = "idle"
  /\ ~ENABLE_RERANKING
  /\ \E fn \in {"rerank_documents", "get_reranker_status"} :
       caller_step(c, [loading[c] EXCEPT !.fn = fn, !.at = "done"])

(* rerank_documents line 77 / get_reranker_status line 112 call
   load_reranker *)
EnterLoad(c) ==
  /\ loading[c].at = "idle"
  /\ ENABLE_RERANKING
  /\ \E fn \in {"rerank_documents", "get_reranker_status"} :
       caller_step(c, [loading[c] EXCEPT !.fn = fn, !.at = "check"])

(* line 29: if _reranker is not None, taken *)
CheckLoaded(c) ==
  /\ loading[c].at = "check"
  /\ _reranker # "None"
  /\ caller_step(c, [loading[c] EXCEPT !.at = "return_cached"])

(* line 29: if _reranker is not None, not taken *)
CheckNone(c) ==
  /\ loading[c].at = "check"
  /\ _reranker = "None"
  /\ caller_step(c, [loading[c] EXCEPT !.at = "construct"])

(* line 30: return _reranker *)
ReturnCached(c) ==
  /\ loading[c].at = "return_cached"
  /\ caller_step(c, [loading[c] EXCEPT !.seen = _reranker, !.at = "done"])

(* lines 33-39: the import succeeds and CrossEncoder(...) returns a new
   object *)
Construct(c) ==
  /\ loading[c].at = "construct"
  /\ Len(constructed) < Len(Instances)
  /\ LET model == Instances[Len(constructed) + 1]
     IN  /\ constructed' = Append(constructed, model)
         /\ loading' = [loading EXCEPT ![c].model = model, ![c].at = "store"]
  /\ UNCHANGED assigned
  /\ UNCHANGED retrieval_vars
  /\ UNCHANGED <<chunking_vars, classifier_vars, stack_vars, sync_vars>>

(* lines 43-48: the import or the constructor raises; return None *)
ConstructFails(c) ==
  /\ loading[c].at = "construct"
  /\ caller_step(c, [loading[c] EXCEPT !.seen = "None", !.at = "done"])

(* line 36: _reranker = the object just constructed *)
Store(c) ==
  /\ loading[c].at = "store"
  /\ _reranker' = loading[c].model
  /\ assigned' = Append(assigned, [before |-> _reranker,
                                   after |-> loading[c].model])
  /\ loading' = [loading EXCEPT ![c].at = "return_loaded"]
  /\ UNCHANGED constructed
  /\ UNCHANGED <<call, rpc, ENABLE_RERANKING, documents, searches,
                 candidates, rerank_path, rerank_scores, invoked, outcome>>
  /\ UNCHANGED <<chunking_vars, classifier_vars, stack_vars, sync_vars>>

(* line 41: return _reranker *)
ReturnLoaded(c) ==
  /\ loading[c].at = "return_loaded"
  /\ caller_step(c, [loading[c] EXCEPT !.seen = _reranker, !.at = "done"])

NextLoad ==
  \E c \in Callers :
    \/ EnterDisabled(c) \/ EnterLoad(c)
    \/ CheckLoaded(c) \/ CheckNone(c) \/ ReturnCached(c)
    \/ Construct(c) \/ ConstructFails(c) \/ Store(c) \/ ReturnLoaded(c)

SpecLoad == InitLoad /\ [][NextLoad]_vars

(***************************************************************************)
(* Properties of the shared scorer.                                        *)
(***************************************************************************)
(* load_reranker returned a model to caller c *)
observed(c) ==
  loading[c].at = "done" /\ loading[c].seen \notin {"unset", "None"}

(* C23: across any interleaving of concurrent callers of load_reranker the
   cross-encoder is constructed at most once, all callers that got a model
   got the same instance, and the global is only ever assigned while it is
   None. *)
C23_LoadedOnce ==
  /\ Len(constructed) <= 1
  /\ \A c \in Callers, d \in Callers :
       observed(c) /\ observed(d) => loading[c].seen = loading[d].seen
  /\ \A k \in 1..Len(assigned) : assigned[k].before = "None"

(***************************************************************************)
(* sync_manuals of app/ingestion.py over a manuals directory that does not *)
(* change, with get_indexed_files, add_documents and reset_vectorstore of  *)
(* app/vectorstore.py.  A PDF is known by the number of chunks             *)
(* process_pdf makes of it; a stored document by its filename and its      *)
(* position among the chunks of the file.                                  *)
(***************************************************************************)
MaxFiles == 2

MaxPdfChunks == 2

MaxSyncs == 3

Pdfs == 1..MaxFiles

(* the documents process_pdf returns for a file that yields n chunks *)
process_pdf(f, n) == [i \in 1..n |-> [filename |-> f, chunk_index |-> i]]

(* the filenames get_indexed_files collects from the stored metadata *)
stored_filenames == {store[i].filename : i \in 1..Len(store)}

(* get_indexed_files: the stored filenames, or [] when reading the
   collection raised *)
get_indexed_files(read) == IF read = "ok" THEN stored_filenames ELSE {}

(* new_files = [f for f in all_pdfs if f.name not in indexed_files] *)
new_files(read) == directory \ get_indexed_files(read)

(* every way process_pdf can go for the new files: the chunks of the file
   ("ok"), no page at all because extract_pdf_text caught an error and
   returned [] ("unreadable"), or an exception that sync_manuals catches
   ("raises") *)
Outcomes(files) == [files -> {"ok", "unreadable", "raises"}]

(* all_docs after the loop over new_files, in directory order *)
RECURSIVE all_docs(_, _, _)
all_docs(f, files, how) ==
  IF f > MaxFiles THEN <<>>
  ELSE (IF f \in files /\ how[f] = "ok" THEN process_pdf(f, yields[f])
        ELSE <<>>) \o all_docs(f + 1, files, how)

(* the stats dictionary *)
Stats(read, files, how, count) ==
  [call |-> "sync_manuals",
   total_files |-> Cardinality(directory),
   already_indexed |-> Cardinality(get_indexed_files(read)),
   new_files |-> Cardinality(files),
   chunks_added |-> count,
   errors |-> {f \in files : how[f] = "raises"},
   returned |-> TRUE]

InitSync ==
  /\ directory \in SUBSET Pdfs
  /\ yields \in [Pdfs -> 0..MaxPdfChunks]
  /\ store = <<>>
  /\ added = [f \in Pdfs |-> 0]
  /\ log = <<>>
  /\ chunking_idle
  /\ classifier_idle
  /\ retrieval_idle
  /\ stack_idle
  /\ loader_idle

Syncing == Len(log) < MaxSyncs

sync_step(entry, docs) ==
  /\ log' = Append(log, entry)
  /\ store' = store \o docs
  /\ added' = [f \in Pdfs |->
                 IF \E i \in 1..Len(docs) : docs[i].filename = f
                 THEN added[f] + 1 ELSE added[f]]
  /\ UNCHANGED <<directory, yields>>
  /\ UNCHANGED <<chunking_vars, classifier_vars, retrieval_vars,
                 stack_vars, loader_vars>>

(* lines 111-126: no new file, return stats *)
SyncNothingNew ==
  /\ Syncing
  /\ \E read \in {"ok", "raises"} :
       /\ new_files(read) = {}
       /\ sync_step(Stats(read, {}, <<>>, 0), <<>>)

(* lines 111-149 with new files of which none gave a document: nothing is
   added *)
SyncAddsNothing ==
  /\ Syncing
  /\ \E read \in {"ok", "raises"} :
       /\ new_files(read) # {}
       /\ \E how \in Outcomes(new_files(read)) :
            /\ all_docs(1, new_files(read), how) = <<>>
            /\ sync_step(Stats(read, new_files(read), how, 0), <<>>)

(* lines 111-149 with documents to add: add_documents stores them and
   returns their number *)
SyncAdds ==
  /\ Syncing
  /\ \E read \in {"ok", "raises"} :
       /\ new_files(read) # {}
       /\ \E how \in Outcomes(new_files(read)) :
            LET docs == all_docs(1, new_files(read), how)
            IN  /\ docs # <<>>
                /\ sync_step(Stats(read, new_files(read), how, Len(docs)),
                             docs)

(* line 144: add_documents raises out of sync_manuals; nothing is stored *)
SyncRaises ==
  /\ Syncing
  /\ \E read \in {"ok", "raises"} :
       /\ new_files(read) # {}
       /\ \E how \in Outcomes(new_files(read)) :
            /\ all_docs(1, new_files(read), how) # <<>>
            /\ sync_step([Stats(read, new_files(read), how, 0)
                            EXCEPT !.returned = FALSE], <<>>)

(* reset_vectorstore: the collection is deleted *)
Reset ==
  /\ Syncing
  /\ log' = Append(log, [call |-> "reset_vectorstore"])
  /\ store' = <<>>
  /\ added' = [f \in Pdfs |-> 0]
  /\ UNCHANGED <<directory, yields>>
  /\ UNCHANGED <<chunking_vars, classifier_vars, retrieval_vars,
                 stack_vars, loader_vars>>

NextSync ==
  SyncNothingNew \/ SyncAddsNothing \/ SyncAdds \/ SyncRaises \/ Reset

SpecSync == InitSync /\ [][NextSync]_vars

(***************************************************************************)
(* Properties of the synchronisation.                                      *)
(***************************************************************************)
(* C24: across any sequence of sync_manuals calls without a reset, the
   chunks of a given file are added to the vector store at most once. *)
C24_AddedOnce == \A f \in Pdfs : added[f] <= 1

(* C30: after a sync_manuals that returned without recording an error, an
   immediately following sync_manuals over the unchanged directory reports
   new_files = 0 and adds no chunks, also when a PDF yields no chunk. *)
C30_SyncConverges ==
  \A k \in 1..(Len(log) - 1) :
    /\ log[k].call = "sync_manuals"
    /\ log[k + 1].call = "sync_manuals"
    /\ log[k].returned /\ log[k].errors = {}
    /\ log[k + 1].returned
    => log[k + 1].new_files = 0 /\ log[k + 1].chunks_added = 0

====
